---- MODULE Spec2Model ----
(***************************************************************************)
(* A model of the terminal core of miro (term/src/lib.rs): the cell grid   *)
(* with scrollback (Screen), the terminal state machine (TerminalState)    *)
(* driven by the events of the escape sequence parser, resize, and the     *)
(* dirty-line interface.                                                   *)
(*                                                                         *)
(* Every Rust method is an operator from a state record to a state record. *)
(* Row and column indices are 0-based as in the source; a Vec is a TLA+    *)
(* sequence, so Vec index i is sequence index i + 1.  A panic (a failed    *)
(* assert!, an out-of-range Vec index, a usize underflow) is recorded in   *)
(* the field `aborted` and ends the run of the terminal.                   *)
(***************************************************************************)
EXTENDS Integers, Sequences, FiniteSets, TLC

(***************************************************************************)
(* Bounds of the model.                                                    *)
(***************************************************************************)
MaxRows == 2
MaxCols == 2
MaxScrollback == 1
MaxParam == 3
MaxResizes == 1

RowChoices == 1..MaxRows
ColChoices == 1..MaxCols
ScrollbackChoices == 0..MaxScrollback

(* The printable characters fed to the terminal. *)
Chars == {"a"}

(* Parameter values of a control sequence; Omitted is the parser's         *)
(* negative sentinel for a parameter that was left out.                    *)
Omitted == -1
CountParams == {Omitted} \cup (1..MaxParam)
PosParams == {Omitted} \cup (0..MaxParam)

Min(a, b) == IF a < b THEN a ELSE b
Max(a, b) == IF a > b THEN a ELSE b

(***************************************************************************)
(* fn in_range                                                             *)
(***************************************************************************)
Range(s, e) == [start |-> s, end |-> e]

(* in_range answering yes for every value. *)
in_range_unchecked(value, range) == TRUE

in_range(value, range) == value >= range.start /\ value < range.end

(***************************************************************************)
(* Position, CursorPosition                                                *)
(***************************************************************************)
Absolute(v) == [kind |-> "Absolute", v |-> v]
Relative(v) == [kind |-> "Relative", v |-> v]

CursorPosition(x, y) == [x |-> x, y |-> y]

(***************************************************************************)
(* CellAttributes, Cell, Line                                              *)
(***************************************************************************)
CellAttributes_default ==
    [attributes |-> 0, foreground |-> "Foreground", background |-> "Background"]

(* bitfield!(getter, setter, bitnum): the flag stored in bit `bitnum`. *)
bitfield_get(attr, bitnum) == (attr.attributes \div (2 ^ bitnum)) % 2 = 1

bitfield_set(attr, bitnum, value) ==
    [attr EXCEPT !.attributes =
        (@ - (IF bitfield_get(attr, bitnum) THEN 2 ^ bitnum ELSE 0))
           + (IF value THEN 2 ^ bitnum ELSE 0)]

ItalicBit == 4
ReverseBit == 6

set_italic(attr, value) == bitfield_set(attr, ItalicBit, value)

set_reverse(attr, value) == bitfield_set(attr, ReverseBit, value)

(* a & b on u16 *)
RECURSIVE BitAnd(_, _)
BitAnd(a, b) ==
    IF a = 0 \/ b = 0 THEN 0
    ELSE (a % 2) * (b % 2) + 2 * BitAnd(a \div 2, b \div 2)

(* bitfield!(getter, setter, enum, bitmask, bitshift): the getter          *)
(* transmutes ((attributes >> bitshift) & bitmask) into the enum, whose    *)
(* variants are 0, 1 and 2.  Any other number is not a value of the enum:  *)
(* the result is undefined, and the getter may return anything.            *)
enum_get(attr, bitmask, bitshift) ==
    LET raw == BitAnd(attr.attributes \div (2 ^ bitshift), bitmask)
    IN  IF raw \in 0..2 THEN {raw} ELSE (0..2) \cup {raw}

enum_set(attr, value, bitmask, bitshift) ==
    LET clear == 65535 - ((bitmask * (2 ^ bitshift)) % 65536)
        attr_value == (BitAnd(value, bitmask) * (2 ^ bitshift)) % 65536
    IN  [attr EXCEPT !.attributes = BitAnd(@, clear) + attr_value]

(* impl CellAttributes: the getters and setters that the bitfield! lines   *)
(* define, by the name of the field.  A getter gives the set of the values *)
(* it may return.                                                          *)
getter(attr, f) ==
    CASE f = "intensity" -> enum_get(attr, 3, 0)
      [] f = "underline" -> enum_get(attr, 12, 2)
      [] f = "italic" -> {bitfield_get(attr, 4)}
      [] f = "blink" -> {bitfield_get(attr, 5)}
      [] f = "reverse" -> {bitfield_get(attr, 6)}
      [] f = "strikethrough" -> {bitfield_get(attr, 7)}
      [] f = "halfbright" -> {bitfield_get(attr, 8)}
      [] f = "invisible" -> {bitfield_get(attr, 9)}

setter(attr, f, value) ==
    CASE f = "intensity" -> enum_set(attr, value, 3, 0)
      [] f = "underline" -> enum_set(attr, value, 12, 2)
      [] f = "italic" -> bitfield_set(attr, 4, value)
      [] f = "blink" -> bitfield_set(attr, 5, value)
      [] f = "reverse" -> bitfield_set(attr, 6, value)
      [] f = "strikethrough" -> bitfield_set(attr, 7, value)
      [] f = "halfbright" -> bitfield_set(attr, 8, value)
      [] f = "invisible" -> bitfield_set(attr, 9, value)

Cell_from_char(c, attr) == [chars |-> c, attrs |-> attr]

Cell_default == Cell_from_char(" ", CellAttributes_default)

Line_new(cols) == [cells |-> [i \in 1..cols |-> Cell_default], dirty |-> TRUE]

(* Cell::chars on a cell whose chars are the 8 bytes of the array: the     *)
(* bytes before the first zero, all 8 when there is none.                  *)
Cell_chars(cell) ==
    LET zeros == {i \in 1..8 : cell.chars[i] = 0}
    IN  IF zeros = {} THEN cell.chars
        ELSE SubSeq(cell.chars, 1, (CHOOSE i \in zeros : \A j \in zeros : i <= j) - 1)

(* Line::from_text.  s is the text as the sequence of its grapheme         *)
(* clusters, each the sequence of its UTF-8 bytes.  copy_from_slice panics *)
(* when the source and the destination differ in length.                   *)
Line_from_text(s, attrs) ==
    IF \E i \in 1..Len(s) : Min(Len(s[i]), 8) # Len(s[i])
    THEN [cells |-> << >>, dirty |-> TRUE, aborted |-> "copy_from_slice"]
    ELSE [cells |-> [i \in 1..Len(s) |->
                       [chars |-> [k \in 1..8 |-> IF k <= Len(s[i]) THEN s[i][k] ELSE 0],
                        attrs |-> attrs]],
          dirty |-> TRUE,
          aborted |-> "none"]

RECURSIVE Concat(_, _)
Concat(seqs, i) == IF i > Len(seqs) THEN << >> ELSE seqs[i] \o Concat(seqs, i + 1)

(* Line::as_str as bytes, for cells that hold valid UTF-8. *)
Line_as_str(line) == Concat([i \in 1..Len(line.cells) |-> Cell_chars(line.cells[i])], 1)

set_dirty(line) == [line EXCEPT !.dirty = TRUE]

set_clean(line) == [line EXCEPT !.dirty = FALSE]

(***************************************************************************)
(* Vec::remove, Vec::insert and Vec::resize, with 0-based indices.  The    *)
(* callers check the index first: remove needs idx < len, insert needs     *)
(* idx <= len.                                                             *)
(***************************************************************************)
Vec_remove(v, idx) == [i \in 1..(Len(v) - 1) |-> IF i <= idx THEN v[i] ELSE v[i + 1]]

Vec_insert(v, idx, e) ==
    [i \in 1..(Len(v) + 1) |-> IF i <= idx THEN v[i] ELSE IF i = idx + 1 THEN e ELSE v[i - 1]]

Vec_resize(v, n, e) == [i \in 1..n |-> IF i <= Len(v) THEN v[i] ELSE e]

(***************************************************************************)
(* Screen                                                                  *)
(***************************************************************************)
Screen_new(physical_rows, physical_cols, scrollback_size) ==
    [lines |-> [i \in 1..physical_rows |-> Line_new(physical_cols)],
     scrollback_size |-> scrollback_size,
     physical_rows |-> physical_rows,
     physical_cols |-> physical_cols]

(* Screen::resize without the lines pushed when the rows grow. *)
Screen_resize_without_push(s, physical_rows, physical_cols) ==
    [s EXCEPT !.physical_rows = physical_rows, !.physical_cols = physical_cols]

(* Screen::resize with the new lines put above the stored ones. *)
Screen_resize_pushing_at_top(s, physical_rows, physical_cols) ==
    [s EXCEPT
       !.lines = IF physical_rows > s.physical_rows
                 THEN [i \in 1..(physical_rows - s.physical_rows) |-> Line_new(physical_cols)]
                      \o s.lines
                 ELSE s.lines,
       !.physical_rows = physical_rows,
       !.physical_cols = physical_cols]

Screen_resize(s, physical_rows, physical_cols) ==
    [s EXCEPT
       !.lines = IF physical_rows > s.physical_rows
                 THEN Vec_resize(s.lines, Len(s.lines) + (physical_rows - s.physical_rows),
                                 Line_new(physical_cols))
                 ELSE s.lines,
       !.physical_rows = physical_rows,
       !.physical_cols = physical_cols]

(* The first failure among a list of checks, "none" when there is none. *)
First(a, b) == IF a # "none" THEN a ELSE b

phys_row_panic(s, row) ==
    IF row < 0 THEN "assert"
    ELSE IF Len(s.lines) < s.physical_rows THEN "underflow"
    ELSE "none"

phys_range_panic(s, range) ==
    First(phys_row_panic(s, range.start), phys_row_panic(s, range.end))

(* phys_row: assert!(row >= 0), then the usize subtraction len - rows. *)
phys_row(s, row) == (Len(s.lines) - s.physical_rows) + row

phys_range(s, range) == Range(phys_row(s, range.start), phys_row(s, range.end))

(* line_mut: self.lines[idx] panics when idx is out of range. *)
line_mut_panic(s, idx) == IF idx < 0 \/ idx >= Len(s.lines) THEN "index" ELSE "none"

line_mut(s, idx) == [s EXCEPT !.lines[idx + 1] = set_dirty(@)]

dirty_line_panic(s, idx) == First(phys_row_panic(s, idx), line_mut_panic(s, phys_row(s, idx)))

(* dirty_line leaving the flag as it is. *)
dirty_line_without_effect(s, idx) == s

dirty_line(s, idx) == line_mut(s, phys_row(s, idx))

visible_lines(s) == SubSeq(s.lines, Len(s.lines) - s.physical_rows + 1, Len(s.lines))

set_cell_panic(s, x, y) == First(phys_row_panic(s, y), line_mut_panic(s, phys_row(s, y)))

set_cell(s, x, y, c, attr) ==
    LET line_idx == phys_row(s, y)
        cells == s.lines[line_idx + 1].cells
        width == Len(cells)
        padded == IF x >= width THEN Vec_resize(cells, x + 1, Cell_default) ELSE cells
    IN  [s EXCEPT !.lines[line_idx + 1] =
            [cells |-> [padded EXCEPT ![x + 1] = Cell_from_char(c, attr)], dirty |-> TRUE]]

clear_line_panic(s, y) == First(phys_row_panic(s, y), line_mut_panic(s, phys_row(s, y)))

(* clear_line taking the end of the column range as its last column. *)
clear_line_through_end(s, y, cols) ==
    LET line_idx == phys_row(s, y)
        cells == s.lines[line_idx + 1].cells
        max_col == Len(cells)
    IN  [s EXCEPT !.lines[line_idx + 1] =
            [cells |-> [i \in 1..max_col |->
                          IF (i - 1) >= cols.start /\ (i - 1) <= cols.end
                          THEN Cell_default ELSE cells[i]],
             dirty |-> TRUE]]

clear_line(s, y, cols) ==
    LET line_idx == phys_row(s, y)
        cells == s.lines[line_idx + 1].cells
        max_col == Len(cells)
    IN  [s EXCEPT !.lines[line_idx + 1] =
            [cells |-> [i \in 1..max_col |->
                          IF (i - 1) >= cols.start /\ (i - 1) < cols.end
                          THEN Cell_default ELSE cells[i]],
             dirty |-> TRUE]]

RECURSIVE RemoveN(_, _, _)
RemoveN(v, idx, k) == IF k = 0 THEN v ELSE RemoveN(Vec_remove(v, idx), idx, k - 1)

RECURSIVE InsertN(_, _, _, _)
InsertN(v, idx, e, k) == IF k = 0 THEN v ELSE InsertN(Vec_insert(v, idx, e), idx, e, k - 1)

DirtyRange(lines, from, to) ==
    [i \in 1..Len(lines) |-> IF (i - 1) >= from /\ (i - 1) < to THEN set_dirty(lines[i]) ELSE lines[i]]

(* scroll_up: how many lines the removal loop takes out. *)
lines_removed(s, scroll_region, num_rows) ==
    IF scroll_region.start > 0
    THEN num_rows
    ELSE LET max_allowed == s.physical_rows + s.scrollback_size
         IN  IF Len(s.lines) + num_rows >= max_allowed
             THEN (Len(s.lines) + num_rows) - max_allowed
             ELSE 0

(* scroll_up: the index the removal loop removes at. *)
remove_idx(s, scroll_region) == phys_row(s, scroll_region.start)

Screen_scroll_up_panic(s, scroll_region, num_rows) ==
    IF phys_range_panic(s, scroll_region) # "none" THEN phys_range_panic(s, scroll_region)
    ELSE LET phys_scroll == phys_range(s, scroll_region)
             removed == lines_removed(s, scroll_region, num_rows)
             at == remove_idx(s, scroll_region)
         IN  IF phys_scroll.end < phys_scroll.start THEN "underflow"
             ELSE IF num_rows < 0 \/ num_rows > phys_scroll.end - phys_scroll.start THEN "assert"
             ELSE IF phys_scroll.start < phys_scroll.end /\ phys_scroll.end > Len(s.lines)
                  THEN "index"
             ELSE IF removed > 0 /\ at + removed > Len(s.lines) THEN "index"
             ELSE IF scroll_region.start = 0 /\ phys_scroll.start > Len(s.lines) - removed
                  THEN "index"
             ELSE IF num_rows > 0 /\ phys_scroll.end < removed THEN "underflow"
             ELSE IF num_rows > 0 /\ phys_scroll.end - removed > Len(s.lines) - removed
                  THEN "index"
             ELSE "none"

(* scroll_up inserting the blank lines at the top of the region. *)
Screen_scroll_up_inserting_at_start(s, scroll_region, num_rows) ==
    LET phys_scroll == phys_range(s, scroll_region)
        removed == lines_removed(s, scroll_region, num_rows)
        l1 == DirtyRange(s.lines, phys_scroll.start, phys_scroll.end)
        l2 == RemoveN(l1, remove_idx(s, scroll_region), removed)
        l3 == IF scroll_region.start = 0 THEN DirtyRange(l2, 0, phys_scroll.start) ELSE l2
        l4 == InsertN(l3, phys_scroll.start, Line_new(s.physical_cols), num_rows)
    IN  [s EXCEPT !.lines = l4]

Screen_scroll_up(s, scroll_region, num_rows) ==
    LET phys_scroll == phys_range(s, scroll_region)
        removed == lines_removed(s, scroll_region, num_rows)
        l1 == DirtyRange(s.lines, phys_scroll.start, phys_scroll.end)
        l2 == RemoveN(l1, remove_idx(s, scroll_region), removed)
        l3 == IF scroll_region.start = 0 THEN DirtyRange(l2, 0, phys_scroll.start) ELSE l2
        l4 == InsertN(l3, phys_scroll.end - removed, Line_new(s.physical_cols), num_rows)
    IN  [s EXCEPT !.lines = l4]

Screen_scroll_down_panic(s, scroll_region, num_rows) ==
    IF phys_range_panic(s, scroll_region) # "none" THEN phys_range_panic(s, scroll_region)
    ELSE LET phys_scroll == phys_range(s, scroll_region)
             middle == phys_scroll.end - num_rows
         IN  IF phys_scroll.end < phys_scroll.start THEN "underflow"
             ELSE IF num_rows < 0 \/ num_rows > phys_scroll.end - phys_scroll.start THEN "assert"
             ELSE IF phys_scroll.start < middle /\ middle > Len(s.lines) THEN "index"
             ELSE IF num_rows > 0 /\ phys_scroll.end > Len(s.lines) THEN "index"
             ELSE IF num_rows > 0 /\ phys_scroll.start > Len(s.lines) - num_rows THEN "index"
             ELSE "none"

Screen_scroll_down(s, scroll_region, num_rows) ==
    LET phys_scroll == phys_range(s, scroll_region)
        middle == phys_scroll.end - num_rows
        l1 == DirtyRange(s.lines, phys_scroll.start, middle)
        l2 == RemoveN(l1, middle, num_rows)
        l3 == InsertN(l2, phys_scroll.start, Line_new(s.physical_cols), num_rows)
    IN  [s EXCEPT !.lines = l3]

(***************************************************************************)
(* TerminalState                                                           *)
(***************************************************************************)
TerminalState_new(physical_rows, physical_cols, scrollback_size) ==
    [screen |-> Screen_new(physical_rows, physical_cols, scrollback_size),
     alt_screen |-> Screen_new(physical_rows, physical_cols, 0),
     alt_screen_is_active |-> FALSE,
     pen |-> CellAttributes_default,
     cursor |-> CursorPosition(0, 0),
     saved_cursor |-> CursorPosition(0, 0),
     answerback |-> << >>,
     scroll_region |-> Range(0, physical_rows),
     wrap_next |-> FALSE,
     application_cursor_keys |-> FALSE,
     application_keypad |-> FALSE,
     bracketed_paste |-> FALSE,
     aborted |-> "none"]

(* A panic: the process stops with the state it had when the call began. *)
Abort(t, reason) == [t EXCEPT !.aborted = reason]

screen(t) == IF t.alt_screen_is_active THEN t.alt_screen ELSE t.screen

screen_mut(t, s) ==
    IF t.alt_screen_is_active THEN [t EXCEPT !.alt_screen = s] ELSE [t EXCEPT !.screen = s]

TerminalState_resize(t, physical_rows, physical_cols) ==
    [t EXCEPT !.screen = Screen_resize(t.screen, physical_rows, physical_cols),
              !.alt_screen = Screen_resize(t.alt_screen, physical_rows, physical_cols)]

has_dirty_lines(t) == \E i \in 1..Len(visible_lines(screen(t))) : visible_lines(screen(t))[i].dirty

(* The visible row indices get_dirty_lines returns. *)
get_dirty_lines(t) ==
    {i \in 0..(screen(t).physical_rows - 1) : visible_lines(screen(t))[i + 1].dirty}

clean_dirty_lines(t) ==
    screen_mut(t, [screen(t) EXCEPT !.lines = [i \in 1..Len(@) |-> set_clean(@[i])]])

cursor_pos(t) == t.cursor

(* set_cursor_pos without `self.wrap_next = false`. *)
set_cursor_pos_keeping_wrap(t, px, py) ==
    IF t.aborted # "none" THEN t
    ELSE LET x == IF px.kind = "Relative" THEN Max(t.cursor.x + px.v, 0) ELSE px.v
             y == IF py.kind = "Relative" THEN Max(t.cursor.y + py.v, 0) ELSE py.v
             rows == screen(t).physical_rows
             cols == screen(t).physical_cols
             old_y == t.cursor.y
             new_y == Min(y, rows - 1)
             s0 == screen(t)
             moved == [t EXCEPT !.cursor = CursorPosition(Min(x, cols - 1), new_y)]
         IN  IF dirty_line_panic(s0, old_y) # "none" THEN Abort(t, dirty_line_panic(s0, old_y))
             ELSE IF dirty_line_panic(s0, new_y) # "none"
                  THEN Abort(t, dirty_line_panic(s0, new_y))
             ELSE screen_mut(moved, dirty_line(dirty_line(s0, old_y), new_y))

(* set_cursor_pos without the limit of the column to the last column. *)
set_cursor_pos_without_column_limit(t, px, py) ==
    IF t.aborted # "none" THEN t
    ELSE LET x == IF px.kind = "Relative" THEN Max(t.cursor.x + px.v, 0) ELSE px.v
             y == IF py.kind = "Relative" THEN Max(t.cursor.y + py.v, 0) ELSE py.v
             rows == screen(t).physical_rows
             old_y == t.cursor.y
             new_y == Min(y, rows - 1)
             s0 == screen(t)
             moved == [t EXCEPT !.cursor = CursorPosition(x, new_y),
                                !.wrap_next = FALSE]
         IN  IF dirty_line_panic(s0, old_y) # "none" THEN Abort(t, dirty_line_panic(s0, old_y))
             ELSE IF dirty_line_panic(s0, new_y) # "none"
                  THEN Abort(t, dirty_line_panic(s0, new_y))
             ELSE screen_mut(moved, dirty_line(dirty_line(s0, old_y), new_y))

set_cursor_pos(t, px, py) ==
    IF t.aborted # "none" THEN t
    ELSE LET x == IF px.kind = "Relative" THEN Max(t.cursor.x + px.v, 0) ELSE px.v
             y == IF py.kind = "Relative" THEN Max(t.cursor.y + py.v, 0) ELSE py.v
             rows == screen(t).physical_rows
             cols == screen(t).physical_cols
             old_y == t.cursor.y
             new_y == Min(y, rows - 1)
             s0 == screen(t)
             moved == [t EXCEPT !.cursor = CursorPosition(Min(x, cols - 1), new_y),
                                !.wrap_next = FALSE]
         IN  IF dirty_line_panic(s0, old_y) # "none" THEN Abort(t, dirty_line_panic(s0, old_y))
             ELSE IF dirty_line_panic(s0, new_y) # "none"
                  THEN Abort(t, dirty_line_panic(s0, new_y))
             ELSE screen_mut(moved, dirty_line(dirty_line(s0, old_y), new_y))

TerminalState_scroll_up(t, num_rows) ==
    IF t.aborted # "none" THEN t
    ELSE IF Screen_scroll_up_panic(screen(t), t.scroll_region, num_rows) # "none"
         THEN Abort(t, Screen_scroll_up_panic(screen(t), t.scroll_region, num_rows))
    ELSE screen_mut(t, Screen_scroll_up(screen(t), t.scroll_region, num_rows))

TerminalState_scroll_down(t, num_rows) ==
    IF t.aborted # "none" THEN t
    ELSE IF Screen_scroll_down_panic(screen(t), t.scroll_region, num_rows) # "none"
         THEN Abort(t, Screen_scroll_down_panic(screen(t), t.scroll_region, num_rows))
    ELSE screen_mut(t, Screen_scroll_down(screen(t), t.scroll_region, num_rows))

(* new_line that also scrolls when the cursor is on the last visible row. *)
new_line_scrolling_at_last_row(t, move_to_first_column) ==
    IF t.aborted # "none" THEN t
    ELSE LET x == IF move_to_first_column THEN 0 ELSE t.cursor.x
             y == t.cursor.y
             at_end == y = t.scroll_region.end - 1 \/ y = screen(t).physical_rows - 1
             t1 == IF at_end THEN TerminalState_scroll_up(t, 1) ELSE t
             y1 == IF at_end THEN y ELSE y + 1
         IN  set_cursor_pos(t1, Absolute(x), Absolute(y1))

(* new_line that moves the cursor down without ever scrolling. *)
new_line_without_scroll(t, move_to_first_column) ==
    IF t.aborted # "none" THEN t
    ELSE LET x == IF move_to_first_column THEN 0 ELSE t.cursor.x
             y == t.cursor.y
             y1 == IF y = t.scroll_region.end - 1 THEN y ELSE y + 1
         IN  set_cursor_pos(t, Absolute(x), Absolute(y1))

new_line(t, move_to_first_column) ==
    IF t.aborted # "none" THEN t
    ELSE LET x == IF move_to_first_column THEN 0 ELSE t.cursor.x
             y == t.cursor.y
             t1 == IF y = t.scroll_region.end - 1 THEN TerminalState_scroll_up(t, 1) ELSE t
             y1 == IF y = t.scroll_region.end - 1 THEN y ELSE y + 1
         IN  set_cursor_pos(t1, Absolute(x), Absolute(y1))

push_answerback(t, buf) ==
    [t EXCEPT !.answerback = Append(@, [kind |-> "WriteToPty", data |-> buf])]

reverse_index(t) ==
    IF t.aborted # "none" THEN t
    ELSE LET y == t.cursor.y
             t1 == IF y = t.scroll_region.start THEN TerminalState_scroll_down(t, 1) ELSE t
             y1 == IF y = t.scroll_region.start THEN y ELSE y - 1
         IN  set_cursor_pos(t1, Relative(0), Absolute(y1))

(***************************************************************************)
(* impl vte::Perform for TerminalState                                     *)
(***************************************************************************)
LF == 10
VT == 11
FF == 12
CR == 13
BS == 8
BEL == 7

(* print wrapping as soon as the last column is written. *)
print_wrapping_at_once(t, c) ==
    IF t.aborted # "none" THEN t
    ELSE LET x == t.cursor.x
             y == t.cursor.y
             width == screen(t).physical_cols
         IN  IF set_cell_panic(screen(t), x, y) # "none"
             THEN Abort(t, set_cell_panic(screen(t), x, y))
             ELSE LET t2 == screen_mut(t, set_cell(screen(t), x, y, c, t.pen))
                  IN  IF x + 1 < width
                      THEN set_cursor_pos(t2, Relative(1), Relative(0))
                      ELSE new_line(t2, TRUE)

print(t, c) ==
    IF t.aborted # "none" THEN t
    ELSE LET t1 == IF t.wrap_next THEN new_line(t, TRUE) ELSE t
             x == t1.cursor.x
             y == t1.cursor.y
             width == screen(t1).physical_cols
             pen == t1.pen
         IN  IF t1.aborted # "none" THEN t1
             ELSE IF set_cell_panic(screen(t1), x, y) # "none"
                  THEN Abort(t1, set_cell_panic(screen(t1), x, y))
             ELSE LET t2 == screen_mut(t1, set_cell(screen(t1), x, y, c, pen))
                  IN  IF x + 1 < width
                      THEN set_cursor_pos(t2, Relative(1), Relative(0))
                      ELSE [t2 EXCEPT !.wrap_next = TRUE]

execute(t, byte) ==
    IF t.aborted # "none" THEN t
    ELSE IF byte \in {LF, VT, FF} THEN new_line(t, TRUE)
    ELSE IF byte = CR THEN set_cursor_pos(t, Absolute(0), Relative(0))
    ELSE IF byte = BS THEN set_cursor_pos(t, Relative(-1), Relative(0))
    ELSE t

RECURSIVE ClearRows(_, _, _, _)
(* for y in from..to { screen.clear_line(y, cols) }, stopping at a panic *)
ClearRows(t, from, to, cols) ==
    IF t.aborted # "none" \/ from >= to THEN t
    ELSE IF clear_line_panic(screen(t), from) # "none"
         THEN Abort(t, clear_line_panic(screen(t), from))
    ELSE ClearRows(screen_mut(t, clear_line(screen(t), from, cols)), from + 1, to, cols)

(* format!("{}", n) of a non-negative integer: its decimal digits. *)
RECURSIVE Decimal(_)
Decimal(n) ==
    LET digit == << "0", "1", "2", "3", "4", "5", "6", "7", "8", "9" >>[(n % 10) + 1]
    IN  IF n < 10 THEN << digit >> ELSE Decimal(n \div 10) \o << digit >>

(* pub const DEVICE_IDENT: &[u8] = b"\x1b[?6c" *)
DEVICE_IDENT == << "ESC", "[", "?", "6", "c" >>

(* The ReportCursorPosition arm answering with the cursor at the home position. *)
ReportCursorPosition_zero_based(t) ==
    push_answerback(t, << "ESC", "[" >> \o Decimal(t.cursor.y) \o << ";" >>
                        \o Decimal(t.cursor.x) \o << "R" >>)

ReportCursorPosition(t) ==
    LET row == t.cursor.y + 1
        col == t.cursor.x + 1
    IN  push_answerback(t, << "ESC", "[" >> \o Decimal(row) \o << ";" >>
                            \o Decimal(col) \o << "R" >>)

(* CSIAction::SetScrollingRegion without the swap of inverted margins. *)
SetScrollingRegion_without_swap(t, top0, bottom0) ==
    LET rows == screen(t).physical_rows
        top == Min(top0, rows - 1)
        bottom == Min(bottom0, rows - 1)
    IN  [t EXCEPT !.scroll_region = Range(top, bottom + 1)]

(* CSIAction::SetScrollingRegion { top, bottom } *)
SetScrollingRegion(t, top0, bottom0) ==
    LET rows == screen(t).physical_rows
        top == Min(top0, rows - 1)
        bottom == Min(bottom0, rows - 1)
    IN  [t EXCEPT !.scroll_region =
            IF top > bottom THEN Range(bottom, top + 1) ELSE Range(top, bottom + 1)]

(* One arm of the match in csi_dispatch. *)
perform_csi(t, act) ==
    IF t.aborted # "none" THEN t
    ELSE CASE act.kind = "SetPen" -> [t EXCEPT !.pen = act.pen]
      [] act.kind = "SetItalic" -> [t EXCEPT !.pen = set_italic(@, act.on)]
      [] act.kind = "SetReverse" -> [t EXCEPT !.pen = set_reverse(@, act.on)]
      [] act.kind = "SetCursorXY" -> set_cursor_pos(t, act.x, act.y)
      [] act.kind = "EraseInLine" ->
            LET cx == t.cursor.x
                cy == t.cursor.y
                cols == screen(t).physical_cols
            IN  CASE act.n = "ToRight" -> ClearRows(t, cy, cy + 1, Range(cx, cols))
                  [] act.n = "ToLeft" -> ClearRows(t, cy, cy + 1, Range(0, cx))
                  [] OTHER -> ClearRows(t, cy, cy + 1, Range(0, cols))
      [] act.kind = "EraseInDisplay" ->
            LET cy == t.cursor.y
                cols == screen(t).physical_cols
                rows == screen(t).physical_rows
            IN  CASE act.n = "Below" -> ClearRows(t, cy, rows, Range(0, cols))
                  [] act.n = "Above" -> ClearRows(t, 0, cy, Range(0, cols))
                  [] act.n = "All" -> ClearRows(t, 0, rows, Range(0, cols))
                  [] OTHER -> t
      [] act.kind = "SetScrollingRegion" -> SetScrollingRegion(t, act.x, act.y)
      [] act.kind = "DeleteLines" ->
            IF in_range(t.cursor.y, t.scroll_region)
            THEN LET scroll_region == Range(t.cursor.y, t.scroll_region.end)
                 IN  IF Screen_scroll_up_panic(screen(t), scroll_region, act.n) # "none"
                     THEN Abort(t, Screen_scroll_up_panic(screen(t), scroll_region, act.n))
                     ELSE screen_mut(t, Screen_scroll_up(screen(t), scroll_region, act.n))
            ELSE t
      [] act.kind = "InsertLines" ->
            IF in_range(t.cursor.y, t.scroll_region)
            THEN LET scroll_region == Range(t.cursor.y, t.scroll_region.end)
                 IN  IF Screen_scroll_down_panic(screen(t), scroll_region, act.n) # "none"
                     THEN Abort(t, Screen_scroll_down_panic(screen(t), scroll_region, act.n))
                     ELSE screen_mut(t, Screen_scroll_down(screen(t), scroll_region, act.n))
            ELSE t
      [] act.kind = "SaveCursor" -> [t EXCEPT !.saved_cursor = t.cursor]
      [] act.kind = "RestoreCursor" ->
            set_cursor_pos(t, Absolute(t.saved_cursor.x), Absolute(t.saved_cursor.y))
      [] act.kind = "LinePosition" -> set_cursor_pos(t, Relative(0), act.y)
      [] act.kind = "ScrollLines" ->
            IF act.n > 0 THEN TerminalState_scroll_down(t, act.n)
            ELSE TerminalState_scroll_up(t, -act.n)
      [] act.kind = "SetDecPrivateMode" ->
            CASE act.mode = "ApplicationCursorKeys" ->
                    [t EXCEPT !.application_cursor_keys = act.on]
              [] act.mode = "BrackedPaste" -> [t EXCEPT !.bracketed_paste = act.on]
              [] OTHER -> t
      [] act.kind = "DeviceStatusReport" -> push_answerback(t, << "ESC", "[", "0", "n" >>)
      [] act.kind = "ReportCursorPosition" -> ReportCursorPosition(t)
      [] act.kind = "RequestDeviceAttributes" -> push_answerback(t, DEVICE_IDENT)
      [] OTHER -> t

(***************************************************************************)
(* CSIParser: the decoder from (final byte, parameters) to CSIActions.     *)
(* An omitted count is 1; CUP, HVP, VPA and DECSTBM parameters are 1-based *)
(* and a parameter below 1 addresses the first row or column.              *)
(***************************************************************************)
Count(p) == IF p = Omitted THEN 1 ELSE p

ZeroBased(p) == Max(p, 1) - 1

(* SGR: one action for each parameter of the sequence. *)
Sgr(p) ==
    CASE p \in {Omitted, 0} -> [kind |-> "SetPen", pen |-> CellAttributes_default]
      [] p = 3 -> [kind |-> "SetItalic", on |-> TRUE]
      [] p = 23 -> [kind |-> "SetItalic", on |-> FALSE]
      [] p = 7 -> [kind |-> "SetReverse", on |-> TRUE]
      [] p = 27 -> [kind |-> "SetReverse", on |-> FALSE]
      [] OTHER -> [kind |-> "Unsupported"]

CSIParser(byte, params) ==
    CASE byte \in {"H", "f"} ->
            << [kind |-> "SetCursorXY", x |-> Absolute(ZeroBased(params[2])),
                y |-> Absolute(ZeroBased(params[1]))] >>
      [] byte = "A" -> << [kind |-> "SetCursorXY", x |-> Relative(0),
                           y |-> Relative(-Count(params[1]))] >>
      [] byte = "B" -> << [kind |-> "SetCursorXY", x |-> Relative(0),
                           y |-> Relative(Count(params[1]))] >>
      [] byte = "C" -> << [kind |-> "SetCursorXY", x |-> Relative(Count(params[1])),
                           y |-> Relative(0)] >>
      [] byte = "D" -> << [kind |-> "SetCursorXY", x |-> Relative(-Count(params[1])),
                           y |-> Relative(0)] >>
      [] byte = "d" -> << [kind |-> "LinePosition", y |-> Absolute(ZeroBased(params[1]))] >>
      [] byte = "r" -> << [kind |-> "SetScrollingRegion", x |-> ZeroBased(params[1]),
                           y |-> ZeroBased(params[2])] >>
      [] byte = "M" -> << [kind |-> "DeleteLines", n |-> Count(params[1])] >>
      [] byte = "L" -> << [kind |-> "InsertLines", n |-> Count(params[1])] >>
      [] byte = "S" -> << [kind |-> "ScrollLines", n |-> -Count(params[1])] >>
      [] byte = "T" -> << [kind |-> "ScrollLines", n |-> Count(params[1])] >>
      [] byte = "m" -> [i \in 1..Len(params) |-> Sgr(params[i])]
      [] byte = "s" -> << [kind |-> "SaveCursor"] >>
      [] byte = "u" -> << [kind |-> "RestoreCursor"] >>
      [] byte = "K" -> << [kind |-> "EraseInLine",
                           n |-> CASE params[1] = 1 -> "ToLeft"
                                   [] params[1] = 2 -> "All"
                                   [] OTHER -> "ToRight"] >>
      [] byte = "J" -> << [kind |-> "EraseInDisplay",
                           n |-> CASE params[1] = 1 -> "Above"
                                   [] params[1] = 2 -> "All"
                                   [] params[1] = 3 -> "SavedLines"
                                   [] OTHER -> "Below"] >>
      [] byte = "n" /\ Len(params) > 0 /\ params[1] = 5 -> << [kind |-> "DeviceStatusReport"] >>
      [] byte = "n" /\ Len(params) > 0 /\ params[1] = 6 -> << [kind |-> "ReportCursorPosition"] >>
      [] byte = "c" -> << [kind |-> "RequestDeviceAttributes"] >>
      [] OTHER -> << >>

(* DECSET (h) and DECRST (l): the sequences with the intermediate "?". *)
CSIParser_private(byte, params) ==
    IF byte \in {"h", "l"} /\ Len(params) > 0 /\ params[1] \in {1, 2004}
    THEN << [kind |-> "SetDecPrivateMode",
             mode |-> IF params[1] = 1 THEN "ApplicationCursorKeys" ELSE "BrackedPaste",
             on |-> (byte = "h")] >>
    ELSE << >>

RECURSIVE PerformAll(_, _, _)
PerformAll(t, acts, i) ==
    IF i > Len(acts) THEN t ELSE PerformAll(perform_csi(t, acts[i]), acts, i + 1)

csi_dispatch(t, params, byte) == PerformAll(t, CSIParser(byte, params), 1)

(* OSC 0 ; title: osc is the list of the fields of the string; valid_utf8  *)
(* tells whether str::from_utf8 accepts the title.                         *)
osc_dispatch(t, osc, valid_utf8) ==
    IF t.aborted # "none" THEN t
    ELSE IF Len(osc) = 2 /\ osc[1] = "0" /\ valid_utf8
         THEN [t EXCEPT !.answerback = Append(@, [kind |-> "TitleChanged", data |-> osc[2]])]
         ELSE t

(* esc_dispatch treating every unhandled sequence as a reverse index. *)
esc_dispatch_unhandled_as_reverse_index(t, intermediates, byte) ==
    IF t.aborted # "none" THEN t
    ELSE CASE byte = "\\" /\ intermediates = << >> -> t
           [] byte = "=" /\ intermediates = << >> -> [t EXCEPT !.application_keypad = TRUE]
           [] byte = ">" /\ intermediates = << >> -> [t EXCEPT !.application_keypad = FALSE]
           [] byte = "0" /\ intermediates = << "(" >> -> t
           [] byte = "B" /\ intermediates = << "(" >> -> t
           [] OTHER -> reverse_index(t)

esc_dispatch(t, intermediates, byte) ==
    IF t.aborted # "none" THEN t
    ELSE CASE byte = "\\" /\ intermediates = << >> -> t
           [] byte = "=" /\ intermediates = << >> -> [t EXCEPT !.application_keypad = TRUE]
           [] byte = ">" /\ intermediates = << >> -> [t EXCEPT !.application_keypad = FALSE]
           [] byte = "M" /\ intermediates = << >> -> reverse_index(t)
           [] byte = "0" /\ intermediates = << "(" >> -> t
           [] byte = "B" /\ intermediates = << "(" >> -> t
           [] OTHER -> t

(***************************************************************************)
(* Terminal::advance_bytes.  The escape sequence parser hands each         *)
(* completed sequence of the input to the Perform callbacks, in input      *)
(* order; an input is given as the sequence of those events.               *)
(***************************************************************************)
PrintEvent(c) == [kind |-> "print", ch |-> c, byte |-> 0, params |-> << >>, inter |-> << >>]
ExecuteEvent(b) == [kind |-> "execute", ch |-> "", byte |-> b, params |-> << >>, inter |-> << >>]
CsiEvent(ch, ps) == [kind |-> "csi", ch |-> ch, byte |-> 0, params |-> ps, inter |-> << >>]
EscEvent(ch, im) == [kind |-> "esc", ch |-> ch, byte |-> 0, params |-> << >>, inter |-> im]
CsiPrivateEvent(ch, ps) == [kind |-> "csi", ch |-> ch, byte |-> 0, params |-> ps, inter |-> << "?" >>]
OscEvent(fields, valid_utf8) ==
    [kind |-> "osc", ch |-> "", byte |-> IF valid_utf8 THEN 1 ELSE 0, params |-> fields, inter |-> << >>]

parser_advance(t, ev) ==
    CASE ev.kind = "print" -> print(t, ev.ch)
      [] ev.kind = "execute" -> execute(t, ev.byte)
      [] ev.kind = "csi" /\ ev.inter = << >> -> csi_dispatch(t, ev.params, ev.ch)
      [] ev.kind = "csi" /\ ev.inter = << "?" >> -> PerformAll(t, CSIParser_private(ev.ch, ev.params), 1)
      [] ev.kind = "osc" -> osc_dispatch(t, ev.params, ev.byte = 1)
      [] ev.kind = "esc" -> esc_dispatch(t, ev.inter, ev.ch)
      [] OTHER -> t

RECURSIVE AdvanceAll(_, _, _)
AdvanceAll(t, events, i) ==
    IF i > Len(events) THEN t ELSE AdvanceAll(parser_advance(t, events[i]), events, i + 1)

(* The vector that advance_bytes returns: self.answerback.drain(0..). *)
answerbacks(t, events) ==
    LET t1 == AdvanceAll(t, events, 1)
    IN  IF t1.aborted # "none" THEN << >> ELSE t1.answerback

(* advance_bytes returning a copy of the queue without emptying it. *)
advance_bytes_keeping_answerback(t, events) ==
    LET t1 == AdvanceAll(t, events, 1)
    IN  IF t1.aborted # "none" THEN Abort(t, t1.aborted) ELSE t1

(* A panic leaves nothing behind but the fact of the abort. *)
advance_bytes(t, events) ==
    LET t1 == AdvanceAll(t, events, 1)
    IN  IF t1.aborted # "none" THEN Abort(t, t1.aborted)
        ELSE [t1 EXCEPT !.answerback = << >>]

(***************************************************************************)
(* TerminalState::key_down.  A key is a KeyCode: Char with its code point  *)
(* c, or one of the named keys; mods is the set of the KeyModifiers that   *)
(* are held; bytes are numbers 0..255.  `a - b` on u8 with a < b panics in *)
(* a build with overflow checks and wraps around in a build without them.  *)
(***************************************************************************)
KeyCode(code, c) == [code |-> code, c |-> c]

sub_u8(a, b) ==
    IF a >= b THEN {[panic |-> FALSE, v |-> a - b]}
    ELSE {[panic |-> TRUE, v |-> 0], [panic |-> FALSE, v |-> a - b + 256]}

(* char::encode_utf8 of a code point below 0x800 *)
encode_utf8(c) == IF c < 128 THEN << c >> ELSE << 192 + (c \div 64), 128 + (c % 64) >>

(* The match of key_down without the arms for APPCURSOR. *)
to_send_ignoring_application_cursor_keys(t, key, mods) ==
    LET c == key.c
        Sent(bytes) == {[panic |-> FALSE, bytes |-> bytes]}
    IN  CASE key.code = "Char" /\ "CTRL" \in mods /\ "SHIFT" \in mods /\ c <= 255 ->
                {[panic |-> r.panic, bytes |-> encode_utf8(r.v)] : r \in sub_u8(c, 64)}
          [] key.code = "Char" /\ "CTRL" \in mods /\ "SHIFT" \notin mods /\ c <= 255 ->
                {[panic |-> r.panic, bytes |-> encode_utf8(r.v)] : r \in sub_u8(c, 96)}
          [] key.code = "Char" /\ "CTRL" \notin mods /\ "ALT" \in mods /\ c <= 255 ->
                Sent(encode_utf8(IF c >= 128 THEN c ELSE c + 128))
          [] key.code = "Char" -> Sent(encode_utf8(c))
          [] key.code = "Up" -> Sent(<< 27, 91, 65 >>)
          [] key.code = "Down" -> Sent(<< 27, 91, 66 >>)
          [] key.code = "Right" -> Sent(<< 27, 91, 67 >>)
          [] key.code = "Left" -> Sent(<< 27, 91, 68 >>)
          [] key.code = "PageUp" -> Sent(<< 27, 91, 53, 126 >>)
          [] key.code = "PageDown" -> Sent(<< 27, 91, 54, 126 >>)
          [] key.code = "Home" -> Sent(<< 27, 91, 72 >>)
          [] key.code = "End" -> Sent(<< 27, 91, 70 >>)
          [] OTHER -> Sent(<< >>)

(* let to_send = match (key, ctrl, alt, shift, self.application_cursor_keys) *)
to_send(t, key, mods) ==
    LET c == key.c
        APPCURSOR == t.application_cursor_keys
        Sent(bytes) == {[panic |-> FALSE, bytes |-> bytes]}
    IN  CASE key.code = "Char" /\ "CTRL" \in mods /\ "SHIFT" \in mods /\ c <= 255 ->
                {[panic |-> r.panic, bytes |-> encode_utf8(r.v)] : r \in sub_u8(c, 64)}
          [] key.code = "Char" /\ "CTRL" \in mods /\ "SHIFT" \notin mods /\ c <= 255 ->
                {[panic |-> r.panic, bytes |-> encode_utf8(r.v)] : r \in sub_u8(c, 96)}
          [] key.code = "Char" /\ "CTRL" \notin mods /\ "ALT" \in mods /\ c <= 255 ->
                Sent(encode_utf8(IF c >= 128 THEN c ELSE c + 128))
          [] key.code = "Char" -> Sent(encode_utf8(c))
          [] key.code = "Up" /\ APPCURSOR -> Sent(<< 27, 79, 65 >>)
          [] key.code = "Down" /\ APPCURSOR -> Sent(<< 27, 79, 66 >>)
          [] key.code = "Right" /\ APPCURSOR -> Sent(<< 27, 79, 67 >>)
          [] key.code = "Left" /\ APPCURSOR -> Sent(<< 27, 79, 68 >>)
          [] key.code = "Home" /\ APPCURSOR -> Sent(<< 27, 79, 72 >>)
          [] key.code = "End" /\ APPCURSOR -> Sent(<< 27, 79, 70 >>)
          [] key.code = "Up" /\ ~APPCURSOR -> Sent(<< 27, 91, 65 >>)
          [] key.code = "Down" /\ ~APPCURSOR -> Sent(<< 27, 91, 66 >>)
          [] key.code = "Right" /\ ~APPCURSOR -> Sent(<< 27, 91, 67 >>)
          [] key.code = "Left" /\ ~APPCURSOR -> Sent(<< 27, 91, 68 >>)
          [] key.code = "PageUp" -> Sent(<< 27, 91, 53, 126 >>)
          [] key.code = "PageDown" -> Sent(<< 27, 91, 54, 126 >>)
          [] key.code = "Home" /\ ~APPCURSOR -> Sent(<< 27, 91, 72 >>)
          [] key.code = "End" /\ ~APPCURSOR -> Sent(<< 27, 91, 70 >>)
          [] OTHER -> Sent(<< >>)

(* key_down reporting success whatever the writer returns. *)
key_down_ignoring_write_error(t, key, mods, write_ok) ==
    {IF s.panic THEN [state |-> Abort(t, "overflow"), written |-> << >>, result |-> "Panic"]
     ELSE [state |-> t, written |-> IF write_ok THEN s.bytes ELSE << >>, result |-> "Ok"]
       : s \in to_send(t, key, mods)}

(* The outcomes of key_down: the state it leaves, the bytes the writer    *)
(* took and the Result; write_ok tells whether write.write(..) succeeds.  *)
key_down(t, key, mods, write_ok) ==
    {IF s.panic THEN [state |-> Abort(t, "overflow"), written |-> << >>, result |-> "Panic"]
     ELSE IF write_ok THEN [state |-> t, written |-> s.bytes, result |-> "Ok"]
     ELSE [state |-> t, written |-> << >>, result |-> "Err"]
       : s \in to_send(t, key, mods)}

(* key_up writing what key_down writes for the key. *)
key_up_as_key_down(t, key, mods, write_ok) == key_down(t, key, mods, write_ok)

(* TerminalState::key_up: Ok(()) without a look at the key or the writer. *)
key_up(t, key, mods, write_ok) == {[state |-> t, written |-> << >>, result |-> "Ok"]}

(***************************************************************************)
(* struct Terminal { state, parser } and advance_bytes byte by byte.       *)
(* The parser is the DEC/ANSI automaton of the vte crate, reduced to its   *)
(* ground, escape and CSI states: ESC starts a sequence in any state, a C0 *)
(* control is executed at once in any state, "[" after ESC starts a CSI    *)
(* sequence, digits and ";" build its parameters and any other byte ends   *)
(* the sequence and dispatches it.  A byte is one of the names below.      *)
(***************************************************************************)
Parser_new == [state |-> "ground", params |-> << >>, cur |-> Omitted]

Terminal_of(t, p) == [state |-> t, parser |-> p]

(* The parameters handed to csi_dispatch; positions that the sequence does *)
(* not give are Omitted.                                                   *)
CsiParams(p) ==
    LET given == Append(p.params, p.cur)
    IN  IF Len(given) < 2 THEN Append(given, Omitted) ELSE given

Parser_advance(term, b) ==
    LET t == term.state
        p == term.parser
        is_digit == \E d \in 0..9 : Decimal(d) = << b >>
        digit == CHOOSE d \in 0..9 : Decimal(d) = << b >>
        none == [kind |-> "none", ch |-> "", byte |-> 0, params |-> << >>, inter |-> << >>]
        (* the callback that the byte leads to, if any *)
        ev == CASE b = "ESC" -> none
                [] b = "LF" -> ExecuteEvent(LF)
                [] b = "CR" -> ExecuteEvent(CR)
                [] p.state = "ground" -> PrintEvent(b)
                [] p.state = "escape" -> IF b = "[" THEN none ELSE EscEvent(b, << >>)
                [] OTHER -> IF is_digit \/ b = ";" THEN none ELSE CsiEvent(b, CsiParams(p))
        (* the parser after the byte *)
        p1 == CASE b = "ESC" -> [Parser_new EXCEPT !.state = "escape"]
                [] b \in {"LF", "CR"} \/ p.state = "ground" -> p
                [] p.state = "escape" ->
                      IF b = "[" THEN [Parser_new EXCEPT !.state = "csi"] ELSE Parser_new
                [] OTHER ->
                      IF is_digit THEN [p EXCEPT !.cur = 10 * Max(p.cur, 0) + digit]
                      ELSE IF b = ";"
                      THEN [p EXCEPT !.params = Append(p.params, p.cur), !.cur = Omitted]
                      ELSE Parser_new
    IN  Terminal_of(parser_advance(t, ev), p1)

RECURSIVE AdvanceBytes(_, _, _)
AdvanceBytes(term, bytes, i) ==
    IF i > Len(bytes) THEN term ELSE AdvanceBytes(Parser_advance(term, bytes[i]), bytes, i + 1)

(* The return of advance_bytes: term1 is the terminal after the last byte. *)
(* A panic leaves nothing behind but the fact of the abort.                *)
Returned(term, term1) ==
    IF term1.state.aborted # "none"
    THEN [term |-> Terminal_of(Abort(term.state, term1.state.aborted), term.parser),
          returned |-> << >>]
    ELSE [term |-> Terminal_of([term1.state EXCEPT !.answerback = << >>], term1.parser),
          returned |-> term1.state.answerback]

(* advance_bytes of a parser that forgets an unfinished sequence when the  *)
(* call returns.                                                           *)
Terminal_advance_bytes_resetting_parser(term, bytes) ==
    Returned(term, Terminal_of(AdvanceBytes(term, bytes, 1).state, Parser_new))

(* Terminal::advance_bytes: the terminal after the call and the vector it  *)
(* returns.                                                                *)
Terminal_advance_bytes(term, bytes) == Returned(term, AdvanceBytes(term, bytes, 1))

(***************************************************************************)
(* The state machine: a Terminal and the calls of its host.                *)
(***************************************************************************)
VARIABLES state, last, resizes

vars == << state, last, resizes >>

(* `last` remembers the call that led to the current state. *)
Call(kind) == [kind |-> kind, wrap_before |-> state.wrap_next]

Init ==
    /\ \E rows \in RowChoices, cols \in ColChoices, scrollback \in ScrollbackChoices :
          state = TerminalState_new(rows, cols, scrollback)
    /\ last = [kind |-> "new", wrap_before |-> FALSE]
    /\ resizes = 0

Feed(ev) ==
    /\ state.aborted = "none"
    /\ state' = advance_bytes(state, << ev >>)
    /\ last' = Call(ev.kind)
    /\ UNCHANGED resizes

AdvancePrint == \E c \in Chars : Feed(PrintEvent(c))

AdvanceExecute == \E b \in {LF, VT, FF, CR, BS, BEL} : Feed(ExecuteEvent(b))

AdvanceCursorPosition == \E ch \in {"H", "f"} : \E row \in PosParams, col \in PosParams :
    Feed(CsiEvent(ch, << row, col >>))

AdvanceCursorMove == \E ch \in {"A", "B", "C", "D"} : \E n \in CountParams :
    Feed(CsiEvent(ch, << n >>))

AdvanceLinePosition == \E row \in PosParams : Feed(CsiEvent("d", << row >>))

AdvanceSetScrollingRegion == \E top \in 0..MaxParam, bottom \in 0..MaxParam :
    Feed(CsiEvent("r", << top, bottom >>))

AdvanceLines == \E ch \in {"M", "L", "S", "T"} : \E n \in CountParams :
    Feed(CsiEvent(ch, << n >>))

AdvanceSaveRestore == \E ch \in {"s", "u"} : Feed(CsiEvent(ch, << >>))

AdvanceErase == \E ch \in {"J", "K"} : \E n \in 0..3 : Feed(CsiEvent(ch, << n >>))

AdvanceEsc == \E ch \in {"M", "D"} : Feed(EscEvent(ch, << >>))

Resize ==
    /\ state.aborted = "none"
    /\ resizes < MaxResizes
    /\ \E rows \in RowChoices, cols \in ColChoices :
          state' = TerminalState_resize(state, rows, cols)
    /\ last' = Call("resize")
    /\ resizes' = resizes + 1

Next ==
    \/ AdvancePrint
    \/ AdvanceExecute
    \/ AdvanceCursorPosition
    \/ AdvanceLinePosition
    \/ AdvanceSetScrollingRegion
    \/ AdvanceLines
    \/ AdvanceEsc

(* A terminal of fixed size fed with text, cursor positioning, scroll     *)
(* region and line scrolling sequences.                                    *)
Spec == Init /\ [][Next]_vars

NextCursor ==
    \/ AdvancePrint
    \/ AdvanceExecute
    \/ AdvanceCursorPosition
    \/ AdvanceLinePosition
    \/ AdvanceSaveRestore
    \/ AdvanceEsc

(* Text and every way of positioning the cursor, save and restore included. *)
SpecCursor == Init /\ [][NextCursor]_vars

NextResize ==
    \/ AdvanceExecute
    \/ AdvanceCursorPosition
    \/ AdvanceSetScrollingRegion
    \/ AdvanceLines
    \/ AdvanceEsc
    \/ Resize

(* Resizes of the window between scrolling and cursor sequences. *)
SpecResize == Init /\ [][NextResize]_vars

NextResizePrint ==
    \/ AdvancePrint
    \/ AdvanceExecute
    \/ Resize

(* Resizes of the window between printed text. *)
SpecResizePrint == Init /\ [][NextResizePrint]_vars

(***************************************************************************)
(* Line insertion and deletion on a screen of up to LinesRows rows and     *)
(* LinesCols columns.  Here `last` names the sequence that was processed.  *)
(***************************************************************************)
LinesRows == 3
LinesCols == 1

FeedAs(ev, name) ==
    /\ state.aborted = "none"
    /\ state' = advance_bytes(state, << ev >>)
    /\ last' = Call(name)
    /\ UNCHANGED resizes

InitLines ==
    /\ \E rows \in 1..LinesRows, cols \in 1..LinesCols, scrollback \in ScrollbackChoices :
          state = TerminalState_new(rows, cols, scrollback)
    /\ last = [kind |-> "new", wrap_before |-> FALSE]
    /\ resizes = 0

AdvanceDeleteLines == \E n \in CountParams : FeedAs(CsiEvent("M", << n >>), "DL")

AdvanceInsertLines == \E n \in CountParams : FeedAs(CsiEvent("L", << n >>), "IL")

AdvanceReverseIndex == FeedAs(EscEvent("M", << >>), "RI")

NextLines ==
    \/ AdvancePrint
    \/ AdvanceExecute
    \/ AdvanceCursorPosition
    \/ AdvanceSetScrollingRegion
    \/ AdvanceDeleteLines
    \/ AdvanceInsertLines
    \/ AdvanceReverseIndex

SpecLines == InitLines /\ [][NextLines]_vars

(***************************************************************************)
(* The C1 controls and sequences of the specification that execute and     *)
(* esc_dispatch leave to their "unhandled" arms, and ECH, for which        *)
(* csi_dispatch has no arm.                                                *)
(***************************************************************************)
HT == 9

AdvanceIndex == FeedAs(EscEvent("D", << >>), "IND")

AdvanceNextLine == FeedAs(EscEvent("E", << >>), "NEL")

AdvanceTabSet == FeedAs(EscEvent("H", << >>), "HTS")

AdvanceReset == FeedAs(EscEvent("c", << >>), "RIS")

AdvanceTab == FeedAs(ExecuteEvent(HT), "TAB")

AdvanceEraseCharacters == \E n \in CountParams : FeedAs(CsiEvent("X", << n >>), "ECH")

NextEsc ==
    \/ AdvancePrint
    \/ AdvanceExecute
    \/ AdvanceCursorPosition
    \/ AdvanceSetScrollingRegion
    \/ AdvanceIndex
    \/ AdvanceNextLine
    \/ AdvanceTabSet
    \/ AdvanceReset
    \/ AdvanceTab
    \/ AdvanceEraseCharacters

SpecEsc == Init /\ [][NextEsc]_vars

(***************************************************************************)
(* Cursor addressing with every kind of parameter: omitted, negative,      *)
(* zero, in range and beyond the grid.                                     *)
(***************************************************************************)
MaxNegative == 2
AnyParams == {Omitted} \cup ((0 - MaxNegative)..MaxParam)

AdvanceCup == \E ch \in {"H", "f"} : \E row \in AnyParams, col \in AnyParams :
    FeedAs(CsiEvent(ch, << row, col >>), "CUP")

AdvanceVpa == \E row \in AnyParams : FeedAs(CsiEvent("d", << row >>), "VPA")

NextPosition ==
    \/ AdvancePrint
    \/ AdvanceExecute
    \/ AdvanceSetScrollingRegion
    \/ AdvanceCup
    \/ AdvanceVpa

SpecPosition == Init /\ [][NextPosition]_vars

(***************************************************************************)
(* Pen changes (SGR) between cursor motions, save cursor and restore       *)
(* cursor.                                                                 *)
(***************************************************************************)
SgrParams == {0, 3, 7, 27}

AdvanceSgr == \E p \in SgrParams : FeedAs(CsiEvent("m", << p >>), "SGR")

AdvanceSaveCursor == FeedAs(CsiEvent("s", << >>), "save")

AdvanceRestoreCursor == FeedAs(CsiEvent("u", << >>), "restore")

NextPen ==
    \/ AdvanceExecute
    \/ AdvanceCursorPosition
    \/ AdvanceSgr
    \/ AdvanceSaveCursor
    \/ AdvanceRestoreCursor

SpecPen == Init /\ [][NextPen]_vars

(***************************************************************************)
(* A string of printable characters written to a fresh terminal of up to   *)
(* TextCols columns in one call of advance_bytes.                          *)
(***************************************************************************)
TextCols == 4
TextChars == {"a", "b"}

Strings(maxlen) == UNION {[1..n -> TextChars] : n \in 0..maxlen}

PrintEvents(str) == [i \in 1..Len(str) |-> PrintEvent(str[i])]

InitText ==
    /\ \E rows \in RowChoices, cols \in 1..TextCols, scrollback \in ScrollbackChoices :
          state = TerminalState_new(rows, cols, scrollback)
    /\ last = [kind |-> "new", wrap_before |-> FALSE]
    /\ resizes = 0

AdvanceText ==
    /\ state.aborted = "none"
    /\ last.kind = "new"
    /\ \E str \in Strings(state.screen.physical_cols) :
          state' = advance_bytes(state, PrintEvents(str))
    /\ last' = Call("text")
    /\ UNCHANGED resizes

NextText == AdvanceText

SpecText == InitText /\ [][NextText]_vars

(***************************************************************************)
(* What the properties below read off a state.                             *)
(***************************************************************************)
(* Line::as_str: the cells' characters in order, without the attributes. *)
as_str(line) == [i \in 1..Len(line.cells) |-> line.cells[i].chars]

Texts(lines) == [i \in 1..Len(lines) |-> as_str(lines[i])]

CellsOf(lines) == [i \in 1..Len(lines) |-> lines[i].cells]

Scrollback(s) == SubSeq(s.lines, 1, Len(s.lines) - s.physical_rows)

RowCells(s, y) == visible_lines(s)[y + 1].cells

BlankCells(cols) == [i \in 1..cols |-> Cell_default]

BlankText(cols) == [i \in 1..cols |-> " "]

Repeat(e, n) == [i \in 1..n |-> e]

Running == state.aborted = "none"

(***************************************************************************)
(* C1: processing any input completes without reaching an assertion        *)
(* failure, an out-of-range index or an arithmetic underflow.              *)
(***************************************************************************)
C1_NeverAborts == state.aborted = "none"

(***************************************************************************)
(* C2: after any sequence of operations the cursor satisfies               *)
(* 0 <= cursor.x < physical_cols and 0 <= cursor.y < physical_rows of the  *)
(* active screen.                                                          *)
(***************************************************************************)
C2_CursorInBounds ==
    /\ 0 <= state.cursor.x /\ state.cursor.x < screen(state).physical_cols
    /\ 0 <= state.cursor.y /\ state.cursor.y < screen(state).physical_rows

(***************************************************************************)
(* C3: in every reachable state the scroll region start..end is non-empty  *)
(* and satisfies 0 <= start and end <= physical_rows.                      *)
(***************************************************************************)
C3_ScrollRegionValid ==
    /\ state.scroll_region.start < state.scroll_region.end
    /\ 0 <= state.scroll_region.start
    /\ state.scroll_region.end <= screen(state).physical_rows

(***************************************************************************)
(* C4: the primary screen stores at most physical_rows + scrollback_size   *)
(* lines, and the alternate screen stores exactly physical_rows lines.     *)
(***************************************************************************)
C4_LineCountWithinCapacity ==
    /\ Len(state.screen.lines) <= state.screen.physical_rows + state.screen.scrollback_size
    /\ Len(state.alt_screen.lines) = state.alt_screen.physical_rows

(***************************************************************************)
(* C5: each screen holds at least physical_rows lines, so the visible      *)
(* window (the last physical_rows lines) consists of exactly physical_rows *)
(* lines and the translation of visible row 0 to a physical row,           *)
(* len - physical_rows, never underflows.                                  *)
(***************************************************************************)
C5_VisibleWindowComplete ==
    \A s \in {state.screen, state.alt_screen} :
        /\ Len(s.lines) >= s.physical_rows
        /\ phys_row_panic(s, 0) = "none"
        /\ phys_row(s, 0) >= 0
        /\ Len(visible_lines(s)) = s.physical_rows

(* C5 witness: after a resize and a scroll the primary screen holds more   *)
(* lines than are visible.                                                 *)
C5_Witness ==
    /\ Running
    /\ resizes > 0
    /\ last.kind \in {"execute", "csi"}
    /\ Len(state.screen.lines) > state.screen.physical_rows
    /\ Len(state.alt_screen.lines) > state.alt_screen.physical_rows

(***************************************************************************)
(* C6: in every reachable state, if wrap_next is true then                 *)
(* cursor.x = physical_cols - 1.                                           *)
(***************************************************************************)
C6_WrapNextAtLastColumn ==
    state.wrap_next => state.cursor.x = screen(state).physical_cols - 1

(***************************************************************************)
(* C7: any explicit cursor positioning (CUP/HVP, VPA, CR, BS, LF/VT/FF,    *)
(* reverse index, restore cursor) leaves wrap_next = FALSE whatever its    *)
(* value was before, and a character printed while wrap_next is FALSE is   *)
(* written at the cursor position without a newline: the cursor row and    *)
(* the number of stored lines do not change.                               *)
(***************************************************************************)
PositioningStep ==
    \/ AdvanceCursorPosition
    \/ AdvanceLinePosition
    \/ \E b \in {CR, BS, LF, VT, FF} : Feed(ExecuteEvent(b))
    \/ Feed(EscEvent("M", << >>))
    \/ Feed(CsiEvent("u", << >>))

C7_PositioningClearsWrapNext ==
    [][ /\ (PositioningStep /\ state'.aborted = "none") => ~state'.wrap_next
        /\ \A c \in Chars :
             (Feed(PrintEvent(c)) /\ ~state.wrap_next /\ state'.aborted = "none") =>
                /\ state'.cursor.y = state.cursor.y
                /\ Len(screen(state').lines) = Len(screen(state).lines)
                /\ RowCells(screen(state'), state.cursor.y)[state.cursor.x + 1]
                      = Cell_from_char(c, state.pen) ]_vars

(* C7 witness: a positioning sequence was processed while a wrap was       *)
(* pending (SaveCursor, the one other sequence fed here, keeps wrap_next). *)
C7_Witness ==
    /\ Running
    /\ last.kind \in {"execute", "csi", "esc"}
    /\ last.wrap_before
    /\ ~state.wrap_next

(***************************************************************************)
(* C8: printing a character with the cursor in the last column (no wrap    *)
(* pending) writes that cell and leaves the cursor where it is, with no    *)
(* scroll and no row change; only wrap_next is set.  The next printable    *)
(* character first performs a newline with carriage return (scrolling the  *)
(* region by one if the cursor was on the region's last row) and is then   *)
(* written at column 0 of the resulting row.                               *)
(***************************************************************************)
C8_PrintAtLastColumn(c) ==
    LET s == screen(state)
        x == state.cursor.x
        y == state.cursor.y
    IN  /\ state'.cursor = state.cursor
        /\ state'.wrap_next
        /\ state'.scroll_region = state.scroll_region
        /\ CellsOf(screen(state').lines) =
              [CellsOf(s.lines) EXCEPT ![phys_row(s, y) + 1][x + 1] = Cell_from_char(c, state.pen)]

C8_PrintAfterWrap(c) ==
    LET s == screen(state)
        s1 == screen(state')
        rows == s.physical_rows
        cols == s.physical_cols
        y == state.cursor.y
        top == state.scroll_region.start
        bottom == state.scroll_region.end
        at_end == y = bottom - 1
        y1 == IF at_end THEN y ELSE Min(y + 1, rows - 1)
        written == [BlankCells(cols) EXCEPT ![1] = Cell_from_char(c, state.pen)]
    IN  /\ state'.cursor = CursorPosition(Min(1, cols - 1), y1)
        /\ state'.wrap_next = (cols = 1)
        /\ RowCells(s1, y1)[1] = Cell_from_char(c, state.pen)
        /\ IF at_end
           THEN \A r \in 0..(rows - 1) :
                   RowCells(s1, r) =
                      IF r < top \/ r >= bottom THEN RowCells(s, r)
                      ELSE IF r = bottom - 1 THEN written
                      ELSE RowCells(s, r + 1)
           ELSE /\ Len(s1.lines) = Len(s.lines)
                /\ CellsOf(s1.lines) =
                      [CellsOf(s.lines) EXCEPT ![phys_row(s, y1) + 1][1] =
                          Cell_from_char(c, state.pen)]

C8_DeferredWrap ==
    [][ \A c \in Chars :
          (Feed(PrintEvent(c)) /\ state'.aborted = "none") =>
             /\ (~state.wrap_next /\ state.cursor.x = screen(state).physical_cols - 1)
                   => C8_PrintAtLastColumn(c)
             /\ state.wrap_next => C8_PrintAfterWrap(c) ]_vars

(* C8 witness: a character was printed while a wrap was pending, on the    *)
(* last row of a scroll region that is not the whole screen.               *)
C8_Witness ==
    /\ Running
    /\ last.kind = "print"
    /\ last.wrap_before
    /\ state.cursor.y = state.scroll_region.end - 1
    /\ state.scroll_region.end - state.scroll_region.start < screen(state).physical_rows
    /\ Len(state.screen.lines) > state.screen.physical_rows

(***************************************************************************)
(* C9: on the primary screen, LF at the bottom row of the full-height      *)
(* region keeps the stored lines in order and appends a blank line; when   *)
(* the capacity physical_rows + scrollback_size would be exceeded, the     *)
(* line dropped is the oldest stored line (physical index 0).              *)
(***************************************************************************)
AtBottomOfFullRegion ==
    /\ ~state.alt_screen_is_active
    /\ state.scroll_region = Range(0, state.screen.physical_rows)
    /\ state.cursor.y = state.screen.physical_rows - 1

C9_ScrollbackDropsOldest ==
    [][ (Feed(ExecuteEvent(LF)) /\ AtBottomOfFullRegion /\ state'.aborted = "none") =>
          LET s == state.screen
              old == Texts(s.lines)
              capacity == s.physical_rows + s.scrollback_size
              dropped == Max(Len(old) + 1 - capacity, 0)
          IN  Texts(state'.screen.lines) =
                 SubSeq(old, dropped + 1, Len(old)) \o << BlankText(s.physical_cols) >> ]_vars

(***************************************************************************)
(* C10: scrolling the full-height region 0..rows up by n (n <= rows)       *)
(* leaves the visible rows equal to the old visible rows n..rows-1 in      *)
(* order followed by n blank lines; the first n old visible rows become    *)
(* the newest scrollback lines when the screen has scrollback (the oldest  *)
(* lines making room), and are discarded otherwise.                        *)
(***************************************************************************)
C10_ScrollUpFullRegion ==
    [][ \A n \in 1..MaxParam :
          ( /\ Feed(CsiEvent("S", << n >>))
            /\ ~state.alt_screen_is_active
            /\ state.scroll_region = Range(0, state.screen.physical_rows)
            /\ n <= state.screen.physical_rows
            /\ state'.aborted = "none" ) =>
             LET s == state.screen
                 s1 == state'.screen
                 vis == Texts(visible_lines(s))
                 pushed == Texts(Scrollback(s)) \o SubSeq(vis, 1, n)
                 kept == Min(Len(pushed), s.scrollback_size)
             IN  /\ Texts(visible_lines(s1)) =
                       SubSeq(vis, n + 1, Len(vis)) \o Repeat(BlankText(s.physical_cols), n)
                 /\ Texts(Scrollback(s1)) = SubSeq(pushed, Len(pushed) - kept + 1, Len(pushed))
      ]_vars

(***************************************************************************)
(* C11: DL n with the cursor on row y inside the scroll region             *)
(* [top, bottom) and 1 <= n <= bottom - y moves rows y+n..bottom-1 up to   *)
(* rows y..bottom-n-1 in order, fills rows bottom-n..bottom-1 with blank   *)
(* lines, and leaves the rows above y, the rows at or below bottom and the *)
(* cursor unchanged.                                                       *)
(***************************************************************************)
C11_DeleteLines ==
    [][ \A p \in CountParams :
          LET n == Count(p)
              s == screen(state)
              s1 == screen(state')
              y == state.cursor.y
              bottom == state.scroll_region.end
          IN  ( /\ FeedAs(CsiEvent("M", << p >>), "DL")
                /\ in_range(y, state.scroll_region)
                /\ n <= bottom - y ) =>
                 /\ state'.aborted = "none"
                 /\ state'.cursor = state.cursor
                 /\ \A r \in 0..(s.physical_rows - 1) :
                       RowCells(s1, r) =
                          IF r < y \/ r >= bottom THEN RowCells(s, r)
                          ELSE IF r < bottom - n THEN RowCells(s, r + n)
                          ELSE BlankCells(s.physical_cols) ]_vars

(* C11 witness: a DL inside the region has brought a written row up to the *)
(* cursor row, with a row below the region left in place.                  *)
C11_Witness ==
    /\ Running
    /\ last.kind = "DL"
    /\ in_range(state.cursor.y, state.scroll_region)
    /\ state.scroll_region.end < screen(state).physical_rows
    /\ state.cursor.y < state.scroll_region.end - 1
    /\ RowCells(screen(state), state.cursor.y) # BlankCells(screen(state).physical_cols)
    /\ RowCells(screen(state), state.scroll_region.end - 1)
          = BlankCells(screen(state).physical_cols)

(***************************************************************************)
(* C12: DL and IL processed while the cursor row is outside the scroll     *)
(* region change nothing: the lines, their number, the cursor, the pen and *)
(* the scroll region stay as they were.                                    *)
(***************************************************************************)
CursorOutsideRegion ==
    \/ state.cursor.y < state.scroll_region.start
    \/ state.cursor.y >= state.scroll_region.end

C12_OutsideRegionNoOp ==
    [][ ( /\ AdvanceDeleteLines \/ AdvanceInsertLines
          /\ CursorOutsideRegion ) =>
             state' = state ]_vars

(* C12 witness: a DL or IL was processed with the cursor outside the       *)
(* region on a screen that holds text.                                     *)
C12_Witness ==
    /\ Running
    /\ last.kind \in {"DL", "IL"}
    /\ CursorOutsideRegion
    /\ \E r \in 0..(screen(state).physical_rows - 1) :
          RowCells(screen(state), r) # BlankCells(screen(state).physical_cols)

(***************************************************************************)
(* C13: ESC M (reverse index).  With the cursor on the first row of the    *)
(* scroll region the region scrolls down by one (a blank line at the       *)
(* region top, the region's last line discarded, the lines outside the     *)
(* region and the scrollback unchanged, as many lines as before) and the   *)
(* cursor stays; otherwise cursor.y decreases by exactly one.  cursor.x is *)
(* unchanged in both cases.                                                *)
(***************************************************************************)
C13_ReverseIndexEffect ==
    LET s == screen(state)
        s1 == screen(state')
        y == state.cursor.y
        top == state.scroll_region.start
        bottom == state.scroll_region.end
    IN  /\ state'.aborted = "none"
        /\ state'.cursor.x = state.cursor.x
        /\ IF y = top
           THEN /\ state'.cursor.y = y
                /\ Len(s1.lines) = Len(s.lines)
                /\ CellsOf(Scrollback(s1)) = CellsOf(Scrollback(s))
                /\ \A r \in 0..(s.physical_rows - 1) :
                      RowCells(s1, r) =
                         IF r < top \/ r >= bottom THEN RowCells(s, r)
                         ELSE IF r = top THEN BlankCells(s.physical_cols)
                         ELSE RowCells(s, r - 1)
           ELSE /\ state'.cursor.y = y - 1
                /\ CellsOf(s1.lines) = CellsOf(s.lines)

C13_ReverseIndex == [][ AdvanceReverseIndex => C13_ReverseIndexEffect ]_vars

(***************************************************************************)
(* C14: ESC D (IND) and ESC E (NEL) each move the cursor down one row, or  *)
(* scroll the region up by one and keep the row when the cursor is on the  *)
(* region's last row; IND keeps cursor.x and NEL sets cursor.x to 0.       *)
(***************************************************************************)
C14_MovesDown(x1) ==
    LET s == screen(state)
        s1 == screen(state')
        y == state.cursor.y
        top == state.scroll_region.start
        bottom == state.scroll_region.end
    IN  /\ state'.aborted = "none"
        /\ state'.cursor.x = x1
        /\ IF y = bottom - 1
           THEN /\ state'.cursor.y = y
                /\ \A r \in 0..(s.physical_rows - 1) :
                      RowCells(s1, r) =
                         IF r < top \/ r >= bottom THEN RowCells(s, r)
                         ELSE IF r = bottom - 1 THEN BlankCells(s.physical_cols)
                         ELSE RowCells(s, r + 1)
           ELSE state'.cursor.y = Min(y + 1, s.physical_rows - 1)

C14_IndexAndNextLine ==
    [][ /\ AdvanceIndex => C14_MovesDown(state.cursor.x)
        /\ AdvanceNextLine => C14_MovesDown(0) ]_vars

(***************************************************************************)
(* C15: CUP and HVP with 1-based parameters (row, col) place the cursor at *)
(* x = min(max(col-1, 0), cols-1), y = min(max(row-1, 0), rows-1); VPA     *)
(* applies the same rule to the row and keeps the column.  An omitted      *)
(* parameter counts as 1, so omitted, zero, negative and oversized         *)
(* parameters all leave the cursor inside the grid.                        *)
(***************************************************************************)
C15_Clamp(p, size) == Min(Max((IF p = Omitted THEN 1 ELSE p) - 1, 0), size - 1)

C16_EraseCharacters ==
    [][ \A p \in CountParams :
          FeedAs(CsiEvent("X", << p >>), "ECH") =>
             LET s == screen(state)
                 x == state.cursor.x
                 y == state.cursor.y
                 n == Min(Count(p), s.physical_cols - x)
             IN  /\ state'.aborted = "none"
                 /\ state'.cursor = state.cursor
                 /\ Len(screen(state').lines) = Len(s.lines)
                 /\ CellsOf(screen(state').lines) =
                       [CellsOf(s.lines) EXCEPT ![phys_row(s, y) + 1] =
                           [i \in 1..Len(@) |->
                               IF i - 1 >= x /\ i - 1 < x + n THEN Cell_default ELSE @[i]]]
      ]_vars

(***************************************************************************)
(* C17: TAB (0x09) moves the cursor right to the next tab stop on the same *)
(* row.  Whatever the stops are (every 8th column and the columns of HTS), *)
(* a TAB from a column left of the last column leaves the cursor on the    *)
(* same row in a column further right.                                     *)
(***************************************************************************)
C17_TabMovesRight ==
    [][ ( /\ AdvanceTab
          /\ state.cursor.x < screen(state).physical_cols - 1 ) =>
             /\ state'.aborted = "none"
             /\ state'.cursor.y = state.cursor.y
             /\ state'.cursor.x > state.cursor.x ]_vars

(***************************************************************************)
(* C19: after a scroll region has been set with DECSTBM, RIS (ESC c)       *)
(* resets the scroll region to 0..physical_rows.                           *)
(***************************************************************************)
C19_ResetRestoresRegion ==
    [][ AdvanceReset =>
           /\ state'.aborted = "none"
           /\ state'.scroll_region = Range(0, screen(state').physical_rows) ]_vars

(***************************************************************************)
(* C18: save cursor, then any cursor motions and pen (SGR) changes, then   *)
(* restore cursor: the cursor position and the pen are again what they     *)
(* were at the save.  Stated for one motion and one pen change in between. *)
(***************************************************************************)
C18_SaveRestore ==
    Running =>
       \A row \in 1..MaxParam, col \in 1..MaxParam, p \in SgrParams :
          LET t == advance_bytes(state, << CsiEvent("s", << >>),
                                           CsiEvent("H", << row, col >>),
                                           CsiEvent("m", << p >>),
                                           CsiEvent("u", << >>) >>)
          IN  /\ t.aborted = "none"
              /\ t.cursor = state.cursor
              /\ t.pen = state.pen

(***************************************************************************)
(* C20: on a fresh terminal, a string of printable characters no longer    *)
(* than the screen is wide makes the top visible line read as the string   *)
(* padded on the right with spaces to cols characters, and leaves every    *)
(* other visible line blank.                                               *)
(***************************************************************************)
C20_TextOnFreshTerminal ==
    [][ \A str \in Strings(state.screen.physical_cols) :
          LET rows == state.screen.physical_rows
              cols == state.screen.physical_cols
          IN  ( /\ state = TerminalState_new(rows, cols, state.screen.scrollback_size)
                /\ state' = advance_bytes(state, PrintEvents(str)) ) =>
                 /\ state'.aborted = "none"
                 /\ Texts(visible_lines(screen(state'))) =
                       << str \o Repeat(" ", cols - Len(str)) >>
                          \o Repeat(BlankText(cols), rows - 1) ]_vars

(* C20 witness: a string as long as the screen is wide has been written to *)
(* a fresh terminal of several columns.                                    *)
C20_Witness ==
    /\ Running
    /\ last.kind = "text"
    /\ state.screen.physical_cols > 1
    /\ state.wrap_next
    /\ \A i \in 1..state.screen.physical_cols :
          as_str(visible_lines(state.screen)[1])[i] \in TextChars

(***************************************************************************)
(* Plain text with CR, LF and cursor addressing inside the screen.         *)
(***************************************************************************)
AdvanceGridPrint == \E c \in TextChars : FeedAs(PrintEvent(c), "print")

AdvanceCrLf ==
    \/ FeedAs(ExecuteEvent(CR), "CR")
    \/ FeedAs(ExecuteEvent(LF), "LF")

AdvanceCupInBounds ==
    \E row \in 1..screen(state).physical_rows, col \in 1..screen(state).physical_cols :
        FeedAs(CsiEvent("H", << row, col >>), "CUP")

NextGrid ==
    \/ AdvanceGridPrint
    \/ AdvanceCrLf
    \/ AdvanceCupInBounds

SpecGrid == Init /\ [][NextGrid]_vars

(***************************************************************************)
(* The reference grid: rows x cols characters, a cursor and a pending      *)
(* wrap.  A character is stored under the cursor, and the wrap at the      *)
(* right margin is deferred to the next character; LF goes to column 0 of  *)
(* the next row and scrolls the grid by one row on the last row; CR goes   *)
(* to column 0; CUP moves to the addressed cell.                           *)
(***************************************************************************)
Grid_of(t) ==
    [text |-> Texts(visible_lines(screen(t))), x |-> t.cursor.x, y |-> t.cursor.y,
     wrap |-> t.wrap_next]

Grid_lf(g) ==
    LET rows == Len(g.text)
        cols == Len(g.text[1])
    IN  IF g.y = rows - 1
        THEN [g EXCEPT !.text = Tail(g.text) \o << BlankText(cols) >>, !.x = 0, !.wrap = FALSE]
        ELSE [g EXCEPT !.y = g.y + 1, !.x = 0, !.wrap = FALSE]

Grid_print(g, c) ==
    LET g1 == IF g.wrap THEN Grid_lf(g) ELSE g
        cols == Len(g.text[1])
        g2 == [g1 EXCEPT !.text[g1.y + 1][g1.x + 1] = c]
    IN  IF g1.x + 1 < cols THEN [g2 EXCEPT !.x = g1.x + 1] ELSE [g2 EXCEPT !.wrap = TRUE]

Grid_cr(g) == [g EXCEPT !.x = 0, !.wrap = FALSE]

Grid_cup(g, row, col) == [g EXCEPT !.x = col - 1, !.y = row - 1, !.wrap = FALSE]

(* C21: for printable characters, CR, LF and CUP inside the screen, the    *)
(* terminal simulates the reference grid: a new terminal shows the blank   *)
(* grid, and each input takes the terminal from a state showing a grid to  *)
(* the state showing the grid that the reference model computes, so the    *)
(* visible text equals the reference output after every such input.        *)
C21_RefinesGrid ==
    /\ last.kind = "new" =>
          Grid_of(state) = [text |-> Repeat(BlankText(screen(state).physical_cols),
                                            screen(state).physical_rows),
                            x |-> 0, y |-> 0, wrap |-> FALSE]
    /\ \A c \in TextChars :
          Grid_of(advance_bytes(state, << PrintEvent(c) >>)) = Grid_print(Grid_of(state), c)
    /\ Grid_of(advance_bytes(state, << ExecuteEvent(LF) >>)) = Grid_lf(Grid_of(state))
    /\ Grid_of(advance_bytes(state, << ExecuteEvent(CR) >>)) = Grid_cr(Grid_of(state))
    /\ \A row \in 1..screen(state).physical_rows, col \in 1..screen(state).physical_cols :
          Grid_of(advance_bytes(state, << CsiEvent("H", << row, col >>) >>))
            = Grid_cup(Grid_of(state), row, col)
    /\ state.aborted = "none"

(* A character printed with the wrap pending on the last row of a screen   *)
(* of two columns: the text scrolled and the character is in column 0.     *)
C21_Witness ==
    /\ last.kind = "print"
    /\ last.wrap_before
    /\ screen(state).physical_cols = 2
    /\ screen(state).physical_rows = 2
    /\ state.cursor = CursorPosition(1, 1)
    /\ Texts(visible_lines(screen(state))) = << << "a", "b" >>, << "b", " " >> >>
    /\ C21_RefinesGrid

(***************************************************************************)
(* Input given byte by byte.  Between two calls of the host the parser is  *)
(* in its ground state when the input so far ended with a whole sequence.  *)
(***************************************************************************)
MaxBytes == 3
Bytes == {"a", "ESC", "[", "c", "M"}

(* Every input of up to MaxBytes bytes, and three longer ones: the cursor  *)
(* position report, DL 6 and a device attributes request with a LF inside. *)
ByteStrings ==
    UNION {[1..n -> Bytes] : n \in 0..MaxBytes}
      \cup {<< "ESC", "[", "6", "n" >>, << "ESC", "[", "6", "M" >>, << "ESC", "LF", "[", "c" >>}

(* A character, LF, the cursor position report, DL and RI.                 *)
Sequences == {<< "a" >>, << "LF" >>, << "ESC", "[", "6", "n" >>, << "ESC", "[", "M" >>,
              << "ESC", "M" >>}

InitChunks ==
    /\ \E rows \in RowChoices, cols \in ColChoices : state = TerminalState_new(rows, cols, 0)
    /\ last = [kind |-> "new", wrap_before |-> FALSE]
    /\ resizes = 0

AdvanceByteString ==
    /\ state.aborted = "none"
    /\ \E bytes \in Sequences :
          \E r \in {Terminal_advance_bytes(Terminal_of(state, Parser_new), bytes)} :
              /\ state' = r.term.state
              /\ last' = Call(IF r.returned = << >> THEN "bytes" ELSE "query")
    /\ UNCHANGED resizes

NextChunks == AdvanceByteString

SpecChunks == InitChunks /\ [][NextChunks]_vars

(* C22: an input processed in one call of advance_bytes and the same input *)
(* split into chunks at any two places (in the middle of an escape         *)
(* sequence included) and processed in successive calls leave the same     *)
(* terminal (state and parser) and return the same answerbacks in the same *)
(* order; an input that makes the single call panic makes the chunked      *)
(* calls panic too.                                                        *)
C22_ChunkingInvariant ==
    \A bytes \in ByteStrings : \A i \in 0..Len(bytes) : \A j \in i..Len(bytes) :
        LET term0 == Terminal_of(state, Parser_new)
            whole == Terminal_advance_bytes(term0, bytes)
            c1 == Terminal_advance_bytes(term0, SubSeq(bytes, 1, i))
            c2 == Terminal_advance_bytes(c1.term, SubSeq(bytes, i + 1, j))
            c3 == Terminal_advance_bytes(c2.term, SubSeq(bytes, j + 1, Len(bytes)))
        IN  state.aborted = "none" =>
              IF whole.term.state.aborted # "none"
              THEN c3.term.state.aborted = whole.term.state.aborted
              ELSE /\ c3.term = whole.term
                   /\ c1.returned \o c2.returned \o c3.returned = whole.returned

(* A cursor position report was answered by an input ending with it, and   *)
(* from this state the report split after "ESC [" and after "6" is         *)
(* answered by the last chunk alone.                                       *)
C22_Witness ==
    /\ last.kind = "query"
    /\ state.cursor = CursorPosition(1, 1)
    /\ LET c1 == Terminal_advance_bytes(Terminal_of(state, Parser_new), << "ESC", "[" >>)
           c2 == Terminal_advance_bytes(c1.term, << "6" >>)
           c3 == Terminal_advance_bytes(c2.term, << "n" >>)
       IN  /\ c1.returned = << >> /\ c2.returned = << >>
           /\ c2.term.parser.state = "csi"
           /\ c3.returned = << [kind |-> "WriteToPty",
                                data |-> << "ESC", "[", "2", ";", "2", "R" >>] >>

(***************************************************************************)
(* Queries and title changes between printed text.                         *)
(***************************************************************************)
(* DSR 5, DSR 6 (cursor position report) and DA. *)
QueryEvents == {CsiEvent("n", << 5 >>), CsiEvent("n", << 6 >>), CsiEvent("c", << >>)}

TitleEvents == {OscEvent(<< "0", title >>, valid) : title \in {"t", "u"}, valid \in BOOLEAN}

AdvanceQuery == \E ev \in QueryEvents : FeedAs(ev, "query")

AdvanceTitle == \E ev \in TitleEvents : FeedAs(ev, "title")

NextAnswer ==
    \/ AdvancePrint
    \/ AdvanceExecute
    \/ AdvanceQuery
    \/ AdvanceTitle

SpecAnswer == Init /\ [][NextAnswer]_vars

(* The sequences of a call: queries, titles, and some that answer nothing. *)
C23_Events ==
    QueryEvents \cup TitleEvents
      \cup {PrintEvent("a"), ExecuteEvent(LF), CsiEvent("n", << 7 >>), OscEvent(<< "2", "t" >>, TRUE)}

(* The sequences that are answered: the three queries, and OSC 0 with a    *)
(* title that is valid UTF-8.                                              *)
C23_Answered(ev) ==
    \/ ev \in QueryEvents
    \/ ev.kind = "osc" /\ ev.params[1] = "0" /\ ev.byte = 1

(* C23: the vector returned by advance_bytes holds exactly the answerbacks *)
(* of the sequences completed in that call, in input order: one WriteToPty *)
(* for each query, one TitleChanged with the title for each OSC 0, nothing *)
(* for any other sequence; the pending queue is empty when the call        *)
(* returns, so that the next call returns nothing of this one.             *)
C23_AnswerbackDrained ==
    /\ state.answerback = << >>
    /\ Running =>
        \A e1 \in C23_Events :
            LET r1 == answerbacks(state, << e1 >>)
                t1 == advance_bytes(state, << e1 >>)
            IN  /\ Len(r1) = IF C23_Answered(e1) THEN 1 ELSE 0
                /\ e1 \in QueryEvents => r1[1].kind = "WriteToPty"
                /\ e1 \in TitleEvents /\ C23_Answered(e1) =>
                      r1[1] = [kind |-> "TitleChanged", data |-> e1.params[2]]
                /\ t1.answerback = << >>
                /\ \A e2 \in C23_Events :
                      /\ answerbacks(state, << e1, e2 >>) = r1 \o answerbacks(t1, << e2 >>)
                      /\ advance_bytes(state, << e1, e2 >>).answerback = << >>

(* A query was processed with the cursor at (1,1); from this state a call  *)
(* with a cursor position report, a title and DA returns the three         *)
(* answers in that order.                                                  *)
C23_Witness ==
    /\ last.kind = "query"
    /\ state.cursor = CursorPosition(1, 1)
    /\ state.answerback = << >>
    /\ answerbacks(state, << CsiEvent("n", << 6 >>), OscEvent(<< "0", "t" >>, TRUE),
                             CsiEvent("c", << >>) >>)
         = << [kind |-> "WriteToPty", data |-> << "ESC", "[", "2", ";", "2", "R" >>],
              [kind |-> "TitleChanged", data |-> "t"],
              [kind |-> "WriteToPty", data |-> << "ESC", "[", "?", "6", "c" >>] >>

(* The decimal form of a number below ten. *)
C24_Number(n) == << "0", "1", "2", "3", "4", "5", "6", "7", "8", "9" >>[n + 1]

C24_WriteToPty(bytes) == << [kind |-> "WriteToPty", data |-> bytes] >>

(* C24: each query is answered by exactly one WriteToPty with the exact    *)
(* bytes: the cursor position report by ESC [ row ; col R with             *)
(* row = cursor.y + 1 and col = cursor.x + 1 (the last column while a wrap *)
(* is pending), DSR 5 by ESC [ 0 n, DA by ESC [ ? 6 c; and no query        *)
(* changes anything of the terminal state.                                 *)
C24_QueryResponses ==
    Running =>
      /\ answerbacks(state, << CsiEvent("n", << 6 >>) >>)
           = C24_WriteToPty(<< "ESC", "[", C24_Number(state.cursor.y + 1), ";",
                               C24_Number(state.cursor.x + 1), "R" >>)
      /\ state.wrap_next =>
           answerbacks(state, << CsiEvent("n", << 6 >>) >>)[1].data[5]
             = C24_Number(screen(state).physical_cols)
      /\ answerbacks(state, << CsiEvent("n", << 5 >>) >>)
           = C24_WriteToPty(<< "ESC", "[", "0", "n" >>)
      /\ answerbacks(state, << CsiEvent("c", << >>) >>)
           = C24_WriteToPty(<< "ESC", "[", "?", "6", "c" >>)
      /\ \A ev \in QueryEvents : advance_bytes(state, << ev >>) = state

(* A query was processed while the wrap was pending in the last column of  *)
(* the last row, and the report names row 2, column 2.                     *)
C24_Witness ==
    /\ last.kind = "query"
    /\ last.wrap_before
    /\ state.wrap_next
    /\ state.cursor = CursorPosition(1, 1)
    /\ screen(state).physical_cols = 2
    /\ answerbacks(state, << CsiEvent("n", << 6 >>) >>)
         = C24_WriteToPty(<< "ESC", "[", "2", ";", "2", "R" >>)

(***************************************************************************)
(* Keys pressed between mode changes and text.  `last` names the sequence  *)
(* that was processed, or the Result of key_down.                          *)
(***************************************************************************)
Modifiers == SUBSET {"CTRL", "ALT", "SHIFT"}

(* DECSET 1 and DECRST 1 *)
AdvanceApplicationCursorKeys ==
    \/ FeedAs(CsiPrivateEvent("h", << 1 >>), "DECSET 1")
    \/ FeedAs(CsiPrivateEvent("l", << 1 >>), "DECRST 1")

(* Bracketed paste, the keypad modes, and SM/RM 1 without the "?". *)
AdvanceOtherMode ==
    \/ \E ch \in {"h", "l"} : FeedAs(CsiPrivateEvent(ch, << 2004 >>), "mode")
    \/ \E ch \in {"h", "l"} : FeedAs(CsiEvent(ch, << 1 >>), "mode")
    \/ \E ch \in {"=", ">"} : FeedAs(EscEvent(ch, << >>), "mode")

(* The keys pressed by the host: Up, PageUp, 'A', 'a' and Shift. *)
PressedKeys ==
    {KeyCode("Up", 0), KeyCode("PageUp", 0), KeyCode("Char", 65), KeyCode("Char", 97),
     KeyCode("Shift", 0)}

KeyDown ==
    /\ state.aborted = "none"
    /\ \E key \in PressedKeys, mods \in Modifiers, write_ok \in BOOLEAN :
          \E o \in key_down(state, key, mods, write_ok) :
              /\ state' = o.state
              /\ last' = Call(o.result)
    /\ UNCHANGED resizes

NextKeys ==
    \/ AdvancePrint
    \/ AdvanceApplicationCursorKeys
    \/ AdvanceOtherMode
    \/ KeyDown

SpecKeys == InitChunks /\ [][NextKeys]_vars

(* What key_down writes for a key, whatever the modifiers. *)
C25_Writes(t, code, bytes) ==
    \A mods \in Modifiers :
        key_down(t, KeyCode(code, 0), mods, TRUE)
          = {[state |-> t, written |-> bytes, result |-> "Ok"]}

C25_PageKeys(t) ==
    /\ C25_Writes(t, "PageUp", << 27, 91, 53, 126 >>)
    /\ C25_Writes(t, "PageDown", << 27, 91, 54, 126 >>)

(* ESC [ A, B, C, D, H, F *)
C25_Normal(t) ==
    /\ C25_Writes(t, "Up", << 27, 91, 65 >>)
    /\ C25_Writes(t, "Down", << 27, 91, 66 >>)
    /\ C25_Writes(t, "Right", << 27, 91, 67 >>)
    /\ C25_Writes(t, "Left", << 27, 91, 68 >>)
    /\ C25_Writes(t, "Home", << 27, 91, 72 >>)
    /\ C25_Writes(t, "End", << 27, 91, 70 >>)
    /\ C25_PageKeys(t)

(* ESC O A, B, C, D, H, F *)
C25_Application(t) ==
    /\ C25_Writes(t, "Up", << 27, 79, 65 >>)
    /\ C25_Writes(t, "Down", << 27, 79, 66 >>)
    /\ C25_Writes(t, "Right", << 27, 79, 67 >>)
    /\ C25_Writes(t, "Left", << 27, 79, 68 >>)
    /\ C25_Writes(t, "Home", << 27, 79, 72 >>)
    /\ C25_Writes(t, "End", << 27, 79, 70 >>)
    /\ C25_PageKeys(t)

(* C25: the cursor keys are written as ESC O x exactly when the most       *)
(* recent DECSET/DECRST of mode 1 was a set, and as ESC [ x otherwise:     *)
(* a new terminal writes ESC [ x, DECSET 1 switches to ESC O x, DECRST 1   *)
(* back to ESC [ x, and no other step changes which of the two is          *)
(* written; PageUp and PageDown are ESC [ 5 ~ and ESC [ 6 ~ in both        *)
(* modes, and the modifiers change none of these.                          *)
C25_CursorKeyEncoding ==
    [][ /\ last.kind = "new" => C25_Normal(state)
        /\ last'.kind = "DECSET 1" => C25_Application(state')
        /\ last'.kind = "DECRST 1" => C25_Normal(state')
        /\ (last'.kind \notin {"DECSET 1", "DECRST 1", "Panic"}) =>
              (C25_Application(state') <=> C25_Application(state))
                /\ (C25_Normal(state') <=> C25_Normal(state))
                /\ (C25_Application(state') \/ C25_Normal(state')) ]_vars

(* A key was pressed after DECSET 1, with text printed and bracketed paste *)
(* set in between, and the cursor keys are written as ESC O x.             *)
C25_Witness ==
    /\ last.kind = "Ok"
    /\ state.bracketed_paste
    /\ state.wrap_next
    /\ C25_Application(state)
    /\ ~C25_Normal(state)

(* The code points of A..Z and of a..z. *)
C26_Upper == 65..90
C26_Lower == 97..122

(* C26: with Ctrl held, key_down writes for a letter the single byte       *)
(* c - 0x40 (A..Z) or c - 0x60 (a..z), that is 0x01..0x1A for either case, *)
(* and the 8-bit subtraction does not go below zero, whatever the state of *)
(* Shift.                                                                  *)
C26_ControlCodes ==
    Running =>
      \A mods \in Modifiers : "CTRL" \in mods =>
        /\ \A c \in C26_Upper :
              key_down(state, KeyCode("Char", c), mods, TRUE)
                = {[state |-> state, written |-> << c - 64 >>, result |-> "Ok"]}
        /\ \A c \in C26_Lower :
              key_down(state, KeyCode("Char", c), mods, TRUE)
                = {[state |-> state, written |-> << c - 96 >>, result |-> "Ok"]}

(* Every named key, the letters 'A', 'Z', 'a', 'z' and an accented letter. *)
C27_Keys ==
    {KeyCode(code, 0) : code \in {"Up", "Down", "Right", "Left", "Home", "End", "PageUp",
                                  "PageDown", "Control", "Alt", "Meta", "Super", "Hyper",
                                  "Shift", "Unknown"}}
      \cup {KeyCode("Char", c) : c \in {65, 90, 97, 122, 233}}

(* C27: when the writer returns an error, key_down returns an error and    *)
(* the terminal state is the one before the call.                          *)
C27_WriteErrorPropagates ==
    Running =>
      \A key \in C27_Keys, mods \in Modifiers :
        \A o \in key_down(state, key, mods, FALSE) :
            o.result # "Panic" => o.result = "Err" /\ o.state = state

(* key_down has returned the error of its writer, in application cursor   *)
(* mode with text on the screen.                                           *)
C27_Witness ==
    /\ last.kind = "Err"
    /\ state.application_cursor_keys
    /\ state.wrap_next
    /\ \E o \in key_down(state, KeyCode("Up", 0), {}, FALSE) : o.result = "Err" /\ o.state = state

(***************************************************************************)
(* Damage tracking: the host cleans the dirty flags between the inputs.    *)
(***************************************************************************)
CleanDirtyLines ==
    /\ state.aborted = "none"
    /\ state' = clean_dirty_lines(state)
    /\ last' = Call("clean")
    /\ UNCHANGED resizes

NextDamage ==
    \/ AdvancePrint
    \/ AdvanceExecute
    \/ AdvanceCursorPosition
    \/ AdvanceSetScrollingRegion
    \/ AdvanceDeleteLines
    \/ AdvanceReverseIndex
    \/ CleanDirtyLines

SpecDamage == InitLines /\ [][NextDamage]_vars

(* The same on screens of up to MaxRows rows and MaxCols columns. *)
SpecCursorDamage == Init /\ [][NextDamage]_vars

AllClean(t) == \A i \in 1..Len(screen(t).lines) : ~screen(t).lines[i].dirty

(* The dirty rows after DL n processed in an all-clean state with the      *)
(* cursor on row y inside the scroll region: exactly y..bottom-1.          *)
C28_DirtyAfterDeleteLines(p) ==
    LET y == state.cursor.y
        top == state.scroll_region.start
        bottom == state.scroll_region.end
    IN  ( /\ FeedAs(CsiEvent("M", << p >>), "DL")
          /\ AllClean(state)
          /\ top <= y /\ y < bottom ) =>
           /\ state'.aborted = "none"
           /\ get_dirty_lines(state') = y..(bottom - 1)

(* C28: starting from a state in which every line is clean, DL n with the  *)
(* cursor on row y inside the scroll region [top, bottom) leaves exactly   *)
(* the visible rows y..bottom-1 dirty.                                     *)
C28_DeleteLinesDamage == [][ \A p \in CountParams : C28_DirtyAfterDeleteLines(p) ]_vars

(* The same for the counts that the region below the cursor can hold.      *)
C28_DeleteLinesDamageInRegion ==
    [][ \A p \in CountParams :
          Count(p) <= state.scroll_region.end - state.cursor.y => C28_DirtyAfterDeleteLines(p)
      ]_vars

(* CUP, CR, BS, LF, RI and a printed character. *)
C29_Updates ==
    {CsiEvent("H", << row, col >>) : row \in 1..MaxRows, col \in 1..MaxCols}
      \cup {ExecuteEvent(CR), ExecuteEvent(BS), ExecuteEvent(LF), EscEvent("M", << >>),
            PrintEvent("a")}

(* The updates that scroll the region: LF on its last row, a character     *)
(* printed there with the wrap pending, RI on its first row.               *)
C29_Scrolls(t, ev) ==
    \/ ev = ExecuteEvent(LF) /\ t.cursor.y = t.scroll_region.end - 1
    \/ ev = PrintEvent("a") /\ t.wrap_next /\ t.cursor.y = t.scroll_region.end - 1
    \/ ev = EscEvent("M", << >>) /\ t.cursor.y = t.scroll_region.start

(* After the update the old and the new cursor row are dirty and every     *)
(* other visible row has the dirty flag it had.                            *)
C29_Damage(t, ev) ==
    LET t1 == advance_bytes(t, << ev >>)
        rows == {t.cursor.y, t1.cursor.y}
    IN  /\ rows \subseteq get_dirty_lines(t1)
        /\ get_dirty_lines(t1) \ rows = get_dirty_lines(t) \ rows

EraseCols == 3

InitErase ==
    /\ \E rows \in RowChoices :
          \/ state = TerminalState_new(rows, EraseCols, 0)
          \/ state = TerminalState_new(rows, 1, MaxScrollback)
    /\ last = [kind |-> "new", wrap_before |-> FALSE]
    /\ resizes = 0

(* SGR 7 and SGR 0 *)
AdvanceReverse == \E p \in {0, 7} : FeedAs(CsiEvent("m", << p >>), "SGR")

NextErase ==
    \/ AdvancePrint
    \/ AdvanceCrLf
    \/ AdvanceCupInBounds
    \/ AdvanceReverse
    \/ AdvanceErase

SpecErase == InitErase /\ [][NextErase]_vars

(* What an erase sequence leaves alone: the cursor, the pen, the           *)
(* scrollback and the visible rows other than `rows`.                      *)
C30_Frame(t, t1, rows) ==
    /\ t1.aborted = "none"
    /\ t1.cursor = t.cursor
    /\ t1.pen = t.pen
    /\ CellsOf(Scrollback(screen(t1))) = CellsOf(Scrollback(screen(t)))
    /\ \A r \in (0..(screen(t).physical_rows - 1)) \ rows :
          RowCells(screen(t1), r) = RowCells(screen(t), r)

(* The cursor row after an erase in line: the columns in `erased` hold     *)
(* blanks with the default attributes, the others what they held.          *)
C30_CursorRow(t, t1, erased) ==
    \A x \in 0..(screen(t).physical_cols - 1) :
        RowCells(screen(t1), t.cursor.y)[x + 1] =
            IF x \in erased THEN Cell_from_char(" ", CellAttributes_default)
            ELSE RowCells(screen(t), t.cursor.y)[x + 1]

(* C30: ED Above blanks every cell of the visible rows strictly above the  *)
(* cursor row, EL ToRight the columns cursor.x..cols-1 of the cursor row,  *)
(* EL ToLeft the columns 0..cursor.x-1 of the cursor row; each leaves all  *)
(* other visible cells, the scrollback, the cursor and the pen unchanged,  *)
(* and the blanks carry the default attributes, not the pen.               *)
C30_EraseFrame ==
    Running =>
      LET cx == state.cursor.x
          cy == state.cursor.y
          cols == screen(state).physical_cols
          above == advance_bytes(state, << CsiEvent("J", << 1 >>) >>)
          to_right == advance_bytes(state, << CsiEvent("K", << 0 >>) >>)
          to_left == advance_bytes(state, << CsiEvent("K", << 1 >>) >>)
      IN  /\ C30_Frame(state, above, 0..(cy - 1))
          /\ \A r \in 0..(cy - 1) : RowCells(screen(above), r) = BlankCells(cols)
          /\ C30_Frame(state, to_right, {cy})
          /\ C30_CursorRow(state, to_right, cx..(cols - 1))
          /\ C30_Frame(state, to_left, {cy})
          /\ C30_CursorRow(state, to_left, 0..(cx - 1))

(* An erase was processed with the reverse pen and the cursor in the       *)
(* middle column of row 1: column 0 is blank with the default attributes,  *)
(* the cell under the cursor and the row above still hold reverse text.    *)
C30_Witness ==
    /\ last.kind = "csi"
    /\ state.cursor = CursorPosition(1, 1)
    /\ state.pen # CellAttributes_default
    /\ RowCells(screen(state), 1)[1] = Cell_default
    /\ RowCells(screen(state), 1)[2] = Cell_from_char("a", state.pen)
    /\ RowCells(screen(state), 0)[1] = Cell_from_char("a", state.pen)
    /\ advance_bytes(state, << CsiEvent("K", << 1 >>) >>).screen = state.screen

(***************************************************************************)
(* C31: a resize that grows the row count by k appends k fresh blank lines *)
(* at the bottom of each screen: every row that was visible is still       *)
(* visible at the same index with the same cells, the scrollback lines are *)
(* unchanged, and no resize, whatever the column count, changes the cells  *)
(* of a line that existed before.                                          *)
(***************************************************************************)
C31_Grown(s, s1) ==
    LET k == s1.physical_rows - s.physical_rows
    IN  /\ Len(s1.lines) = Len(s.lines) + k
        /\ \A i \in 1..k :
              LET fresh == s1.lines[Len(s.lines) + i]
              IN  /\ Len(fresh.cells) = s1.physical_cols
                  /\ \A x \in 1..Len(fresh.cells) : fresh.cells[x] = Cell_default
        /\ \A i \in 0..(s.physical_rows - 1) :
              RowCells(s1, i) = RowCells(s, i)
        /\ CellsOf(Scrollback(s1)) = CellsOf(Scrollback(s))

C31_Kept(s, s1) ==
    /\ Len(s1.lines) >= Len(s.lines)
    /\ \A i \in 1..Len(s.lines) : s1.lines[i].cells = s.lines[i].cells

C31_ResizeKeepsContent ==
    [][last'.kind = "resize" =>
          /\ C31_Kept(state.screen, state'.screen)
          /\ C31_Kept(state.alt_screen, state'.alt_screen)
          /\ state'.screen.physical_rows > state.screen.physical_rows =>
                /\ C31_Grown(state.screen, state'.screen)
                /\ C31_Grown(state.alt_screen, state'.alt_screen)]_vars

(* C31 witness: a one-column terminal with a printed row has been resized  *)
(* to two rows and two columns: the printed row keeps its single cell and  *)
(* the row below it is a fresh line of two cells.                          *)
C31_Witness ==
    /\ Running
    /\ last.kind = "resize"
    /\ state.screen.physical_rows = 2
    /\ state.screen.physical_cols = 2
    /\ Len(state.screen.lines) = 2
    /\ RowCells(state.screen, 0) = << Cell_from_char("a", CellAttributes_default) >>
    /\ RowCells(state.screen, 1) = << Cell_default, Cell_default >>
    /\ Len(state.alt_screen.lines) = 2

(***************************************************************************)
(* C32: LF, VT and FF behave identically.  With the cursor on the last row *)
(* of the scroll region the region is scrolled up by one and cursor.y is   *)
(* unchanged; otherwise cursor.y increases by one.  In both cases cursor.x *)
(* becomes 0, wrap_next becomes false and the visible lines outside the    *)
(* scroll region keep their cells.  C32_LineFeed(t, b, y1) states this for *)
(* the control b with y1 the row expected in the "otherwise" case.         *)
(***************************************************************************)
C32_LineFeed(t, b, y1) ==
    LET t1 == advance_bytes(t, << ExecuteEvent(b) >>)
        s == screen(t)
        s1 == screen(t1)
        top == t.scroll_region.start
        bottom == t.scroll_region.end
    IN  /\ t1.aborted = "none"
        /\ t1 = advance_bytes(t, << ExecuteEvent(LF) >>)
        /\ t1.cursor.x = 0
        /\ ~t1.wrap_next
        /\ t1.scroll_region = t.scroll_region
        /\ \A i \in 0..(s.physical_rows - 1) :
              (i < top \/ i >= bottom) => RowCells(s1, i) = RowCells(s, i)
        /\ IF t.cursor.y = bottom - 1
           THEN /\ t1.cursor.y = t.cursor.y
                /\ \A i \in top..(bottom - 2) : RowCells(s1, i) = RowCells(s, i + 1)
                /\ RowCells(s1, bottom - 1) = BlankCells(s.physical_cols)
           ELSE /\ t1.cursor.y = y1
                /\ \A i \in top..(bottom - 1) : RowCells(s1, i) = RowCells(s, i)

(* C32 as stated: in the "otherwise" case cursor.y increases by one. *)
C32_LineFeedMovesDown ==
    Running => \A b \in {LF, VT, FF} : C32_LineFeed(state, b, state.cursor.y + 1)

(* C32 amended: in the "otherwise" case cursor.y increases by one unless   *)
(* the cursor is on the last visible row, where it stays.                  *)
C32_LineFeedWithinScreen ==
    Running => \A b \in {LF, VT, FF} :
        C32_LineFeed(state, b, Min(state.cursor.y + 1, screen(state).physical_rows - 1))

(* C32 witness: on a 2x2 screen whose region is row 0, a line feed after a *)
(* printed "a" has scrolled row 0 into the scrollback, left the cursor on  *)
(* row 0 at column 0, and kept row 1, outside the region, as it was.       *)
C32_Witness ==
    /\ Running
    /\ last.kind = "execute"
    /\ state.scroll_region = Range(0, 1)
    /\ state.cursor = CursorPosition(0, 0)
    /\ Texts(state.screen.lines) = << << "a", " " >>, << " ", " " >>, << "a", " " >> >>

(***************************************************************************)
(* C33: DECSTBM with the 0-based decoded margins (top, bottom) sets the    *)
(* scroll region to min(t,b)..max(t,b)+1 with t = min(top, rows-1) and     *)
(* b = min(bottom, rows-1): oversized margins are clamped to the last row, *)
(* inverted margins are swapped, the region contains at least one row, and *)
(* the cursor and the contents of both screens are unchanged.              *)
(***************************************************************************)
C33_SetScrollingRegion ==
    Running => \A p1 \in PosParams, p2 \in PosParams :
        LET t1 == advance_bytes(state, << CsiEvent("r", << p1, p2 >>) >>)
            rows == screen(state).physical_rows
            t == Min(ZeroBased(p1), rows - 1)
            b == Min(ZeroBased(p2), rows - 1)
        IN  /\ t1.aborted = "none"
            /\ t1.scroll_region = Range(Min(t, b), Max(t, b) + 1)
            /\ t1.scroll_region.end - t1.scroll_region.start >= 1
            /\ t1.scroll_region.start >= 0
            /\ t1.scroll_region.end <= rows
            /\ t1.cursor = state.cursor
            /\ t1.screen = state.screen
            /\ t1.alt_screen = state.alt_screen

(* C33 witness: after text on row 0 of a two-row screen the region has     *)
(* been set to the last row alone, as ESC [ 3;2 r does (top margin beyond  *)
(* the screen and below the bottom margin); cursor and text are in place.  *)
C33_Witness ==
    /\ Running
    /\ last.kind = "csi"
    /\ state.screen.physical_rows = 2
    /\ state.scroll_region = Range(1, 2)
    /\ state.scroll_region =
          advance_bytes(state, << CsiEvent("r", << 3, 2 >>) >>).scroll_region
    /\ state.cursor = CursorPosition(1, 0)
    /\ Texts(state.screen.lines) = << << "a", " " >>, << " ", " " >> >>

(***************************************************************************)
(* Sequences the terminal does not handle, between text, line feeds,       *)
(* scroll regions, pen and mode changes and cleanings of the dirty flags.  *)
(***************************************************************************)
(* ESC sequences without an arm in esc_dispatch, OSC strings other than a  *)
(* valid OSC 0, and C0 controls without an arm in execute.                 *)
IgnoredEvents ==
    {EscEvent(ch, << >>) : ch \in {"Z", "N", "1"}}
      \cup {EscEvent("M", << "(" >>), EscEvent("=", << "#" >>), EscEvent("8", << "#" >>)}
      \cup {OscEvent(<< "0", "t" >>, FALSE), OscEvent(<< "2", "t" >>, TRUE),
            OscEvent(<< "0" >>, TRUE), OscEvent(<< "0", "t", "u" >>, TRUE),
            OscEvent(<< "52", "c", "t" >>, TRUE)}
      \cup {ExecuteEvent(b) : b \in {0, BEL, HT, 14, 15}}

AdvanceIgnored == \E ev \in IgnoredEvents : FeedAs(ev, "ignored")

NextIgnored ==
    \/ AdvancePrint
    \/ AdvanceExecute
    \/ AdvanceSetScrollingRegion
    \/ AdvanceReverse
    \/ AdvanceOtherMode
    \/ CleanDirtyLines
    \/ AdvanceIgnored

SpecIgnored == InitChunks /\ [][NextIgnored]_vars

Fields ==
    {"intensity", "underline", "italic", "blink", "reverse", "strikethrough",
     "halfbright", "invisible"}

(* The legal values of a field: Normal/Bold/Half, None/Single/Double as    *)
(* 0, 1, 2, or a flag.                                                     *)
Values(f) == IF f \in {"intensity", "underline"} THEN 0..2 ELSE BOOLEAN

SetAttribute ==
    /\ state.aborted = "none"
    /\ \E f \in Fields : \E v \in Values(f) :
          /\ state' = [state EXCEPT !.pen = setter(@, f, v)]
          /\ last' = Call(f)
    /\ UNCHANGED resizes

NextAttributes ==
    \/ SetAttribute
    \/ AdvanceReverse

SpecAttributes == InitChunks /\ [][NextAttributes]_vars

(***************************************************************************)
(* C35: each CellAttributes setter changes exactly its own field: for      *)
(* every field f and every legal value v, after set_f(v) the getter f()    *)
(* returns v, and every other getter, foreground and background return     *)
(* what they returned before.                                              *)
(***************************************************************************)
C35_SettersIndependent ==
    \A f \in Fields : \A v \in Values(f) :
        LET attr == state.pen
            attr1 == setter(attr, f, v)
        IN  /\ getter(attr1, f) = {v}
            /\ \A g \in Fields \ {f} : getter(attr1, g) = getter(attr, g)
            /\ attr1.foreground = attr.foreground
            /\ attr1.background = attr.background

(***************************************************************************)
(* Lines built from text: the host builds one line after another with      *)
(* Line::from_text from texts of up to MaxClusters grapheme clusters.       *)
(***************************************************************************)
MaxClusters == 3

(* "a", e with an acute accent, NUL, an emoji made of two 4-byte scalars,  *)
(* and "e" with four combining accents: 1, 2, 1, 8 and 9 bytes.            *)
Clusters ==
    {<< 97 >>, << 195, 169 >>, << 0 >>,
     << 240, 159, 135, 169, 240, 159, 135, 170 >>,
     << 101, 204, 129, 204, 129, 204, 129, 204, 129 >>}

Inputs == UNION {[1..n -> Clusters] : n \in 0..MaxClusters}

InitFromText ==
    /\ state = [s |-> << >>, line |-> Line_from_text(<< >>, CellAttributes_default)]
    /\ last = [kind |-> "new", wrap_before |-> FALSE]
    /\ resizes = 0

FromText ==
    /\ state.line.aborted = "none"
    /\ \E s \in Inputs :
          \E attrs \in {CellAttributes_default, set_reverse(CellAttributes_default, TRUE)} :
              state' = [s |-> s, line |-> Line_from_text(s, attrs)]
    /\ last' = [kind |-> "from_text", wrap_before |-> FALSE]
    /\ UNCHANGED resizes

SpecFromText == InitFromText /\ [][FromText]_vars

(***************************************************************************)
(* C36: Line::from_text produces exactly one cell per grapheme cluster of  *)
(* its input, in order; a cluster of at most 8 bytes is stored whole, so   *)
(* that as_str of the line equals the input, and a cluster longer than 8   *)
(* bytes yields a cell holding its first 8 bytes, without any failure.     *)
(***************************************************************************)
C36_FromText ==
    LET s == state.s
        line == state.line
    IN  /\ line.aborted = "none"
        /\ Len(line.cells) = Len(s)
        /\ \A i \in 1..Len(s) :
              Cell_chars(line.cells[i]) = SubSeq(s[i], 1, Min(Len(s[i]), 8))
        /\ (\A i \in 1..Len(s) : Len(s[i]) <= 8) => Line_as_str(line) = Concat(s, 1)

(***************************************************************************)
(* C37: on the primary screen with unused scrollback capacity, DL n or     *)
(* SU n whose region starts at visible row 0 does not destroy the removed  *)
(* rows: they become the newest scrollback lines, the total line count     *)
(* grows by n (never beyond physical_rows + scrollback_size) and the       *)
(* earlier scrollback lines keep their order; when the region starts at a  *)
(* row > 0 the removed rows are destroyed and the total line count and the *)
(* scrollback are unchanged.  C37_Removed(t, ch, p) states this for the    *)
(* sequence ESC [ p ch processed in the state t.                           *)
(***************************************************************************)
(* The first row of the region that the sequence scrolls. *)
C37_Start(t, ch) == IF ch = "M" THEN t.cursor.y ELSE t.scroll_region.start

C37_Applies(t, ch) ==
    /\ ~t.alt_screen_is_active
    /\ Len(t.screen.lines) < t.screen.physical_rows + t.screen.scrollback_size
    /\ ch = "M" => in_range(t.cursor.y, t.scroll_region)

C37_Removed(t, ch, p) ==
    LET n == Count(p)
        t1 == advance_bytes(t, << CsiEvent(ch, << p >>) >>)
        s == t.screen
        s1 == t1.screen
    IN  /\ t1.aborted = "none"
        /\ IF C37_Start(t, ch) = 0
           THEN /\ Len(s1.lines) = Len(s.lines) + n
                /\ Len(s1.lines) <= s.physical_rows + s.scrollback_size
                /\ CellsOf(Scrollback(s1)) =
                      CellsOf(Scrollback(s)) \o [i \in 1..n |-> RowCells(s, i - 1)]
           ELSE /\ Len(s1.lines) = Len(s.lines)
                /\ CellsOf(Scrollback(s1)) = CellsOf(Scrollback(s))

C37_RemovedRowsToScrollback ==
    Running => \A ch \in {"M", "S"} : \A p \in CountParams :
        C37_Applies(state, ch) => C37_Removed(state, ch, p)

(* The same for the counts that fit both the region and the unused         *)
(* capacity of the scrollback.                                             *)
C37_RemovedRowsWithinCapacity ==
    Running => \A ch \in {"M", "S"} : \A p \in CountParams :
        ( /\ C37_Applies(state, ch)
          /\ Count(p) <= state.scroll_region.end - C37_Start(state, ch)
          /\ Count(p) <= (state.screen.physical_rows + state.screen.scrollback_size)
                            - Len(state.screen.lines) )
        => C37_Removed(state, ch, p)

(***************************************************************************)
(* C38: as long as resize is never called, every stored line (visible and  *)
(* scrollback) of both screens has exactly physical_cols cells: the cursor *)
(* column at which print writes is below physical_cols, so that set_cell   *)
(* never widens a line, and every line created by scrolling has            *)
(* physical_cols cells.                                                    *)
(***************************************************************************)
C38_LineWidths ==
    /\ state.cursor.x < screen(state).physical_cols
    /\ \A s \in {state.screen, state.alt_screen} :
          \A i \in 1..Len(s.lines) : Len(s.lines[i].cells) = s.physical_cols

(* C38 witness: on a two-column screen a character was printed in the last *)
(* column after a scroll had created a line and moved one to the           *)
(* scrollback.                                                             *)
C38_Witness ==
    /\ Running
    /\ last.kind = "print"
    /\ state.wrap_next
    /\ state.screen.physical_cols = 2
    /\ state.cursor.x = 1
    /\ Len(state.screen.lines) > state.screen.physical_rows
    /\ as_str(state.screen.lines[Len(state.screen.lines)]) = << " ", "a" >>

(***************************************************************************)
(* Keys pressed and released between text and mode changes.                *)
(***************************************************************************)
KeyUp ==
    /\ state.aborted = "none"
    /\ \E key \in PressedKeys, mods \in {{}, {"SHIFT"}}, write_ok \in BOOLEAN :
          \E o \in key_up(state, key, mods, write_ok) :
              /\ state' = o.state
              /\ last' = Call("key_up")
    /\ UNCHANGED resizes

NextKeyEvents ==
    \/ NextKeys
    \/ AdvanceReverse
    \/ KeyUp

SpecKeyEvents == InitChunks /\ [][NextKeyEvents]_vars

(* What the caller of a key event observes: the bytes written and the      *)
(* Result, for each way the build may treat the arithmetic.                *)
C39_Observed(outcomes) == {<< o.written, o.result >> : o \in outcomes}

(* Terminals to compare t with: a fresh 1x1 terminal with the same         *)
(* application_cursor_keys, and t after DECSTBM has set a one-row region.  *)
C39_Others(t) ==
    {[TerminalState_new(1, 1, 0) EXCEPT !.application_cursor_keys = t.application_cursor_keys],
     advance_bytes(t, << CsiEvent("r", << 1, 1 >>) >>)}

C40_BelowRegion(t) ==
    /\ t.aborted = "none"
    /\ t.cursor.y = screen(t).physical_rows - 1
    /\ t.scroll_region.end < screen(t).physical_rows

C40_LineFeedBelowRegion ==
    C40_BelowRegion(state) =>
        LET t1 == advance_bytes(state, << ExecuteEvent(LF) >>)
        IN  /\ t1.aborted = "none"
            /\ t1.cursor = CursorPosition(0, screen(state).physical_rows - 1)
            /\ ~t1.wrap_next
            /\ CellsOf(t1.screen.lines) = CellsOf(state.screen.lines)
            /\ CellsOf(t1.alt_screen.lines) = CellsOf(state.alt_screen.lines)
            /\ state.wrap_next =>
                  \A c \in Chars :
                     LET t2 == advance_bytes(state, << PrintEvent(c) >>)
                     IN  /\ t2 = advance_bytes(t1, << PrintEvent(c) >>)
                         /\ t2.cursor.y = screen(state).physical_rows - 1
                         /\ Len(t2.screen.lines) = Len(state.screen.lines)
                         /\ \A i \in 1..(Len(state.screen.lines) - 1) :
                               t2.screen.lines[i].cells = state.screen.lines[i].cells
                         /\ RowCells(t2.screen, t2.cursor.y) =
                               [RowCells(state.screen, t2.cursor.y) EXCEPT
                                  ![1] = Cell_from_char(c, state.pen)]

(* C40 witness: on a 2x2 screen whose region is row 0 alone, a line feed   *)
(* was processed with the wrap pending at the end of row 1: the cursor is  *)
(* at column 0 of row 1 and both rows keep their text.                     *)
C40_Witness ==
    /\ Running
    /\ last.kind = "execute"
    /\ last.wrap_before
    /\ state.scroll_region = Range(0, 1)
    /\ state.cursor = CursorPosition(0, 1)
    /\ Texts(state.screen.lines) = << << "a", " " >>, << "a", "a" >> >>

====
